---- MODULE Spec2Model ----
(***************************************************************************)
(* The episode acquisition pipeline of the podcast player: scrapeEpisodes  *)
(* (src/src/episodes-manager.js) and the stand-alone scraper script        *)
(* scrapeAllStreams (src/unnamed/part_000), both writing the JSON store    *)
(* episodes.json through upsertEpisode.                                    *)
(*                                                                         *)
(* A run is a sequence of awaited steps; the provider's responses are the  *)
(* inputs, drawn from small sets at the step that awaits them.             *)
(***************************************************************************)
EXTENDS Integers, Sequences, FiniteSets, TLC

\* ------------------------------------------------------------------ bounds
\* The wall clock stops at MaxClock: one tick passes per awaited detail
\* request, so MaxClock also bounds the items processed over all runs.
MaxClock == 2
\* Items one enumeration returns at most, over all its pages.
MaxTracks == 2
\* Page requests of one enumeration at most.
MaxPages == 2
\* Candidate scripts found in the profile page at most.
MaxScripts == 2
\* Direct calls of the exported upsertEpisode at most.
MaxUpserts == 3
\* Progressive renditions of a record, where requests are followed one by one.
MaxRenditions == 1
\* Audio files in the downloads directory when the bot starts at most.
MaxFiles == 3
\* Voice channels the bot can be sent to.
MaxChannels == 2
\* Episodes started one after the other by the Idle handler, counted up to.
MaxChain == 2
\* Token patterns that match in one script at most.
MaxMatches == 2
\* Pieces of a description handed to extractShowNotesUrl at most.
MaxTokens == 3
\* Chapters of the episode whose chapter menu is opened at most.
MaxChapters == 50
\* Whole seconds of the durations formatDuration is called with at most.
MaxSeconds == 7322

\* ------------------------------------------------------- JavaScript values
\* JSON null for the string-valued fields.
Null == "null"
\* The JavaScript value undefined, for the chapters field.
undefined == <<[undefined |-> TRUE]>>

\* -------------------------------------------------------- provider records
Ids == {1, 2}
\* created_at values, ISO 8601 strings.
Timestamps == {"2025-01-01T10:00:00.000Z", "2025-02-01T10:00:00.000Z"}

\* A description is the sequence of the things the extraction patterns see
\* in it: a chapter line "(HH:MM:SS) title", a bare URL, plain text.
ChapterLine(start, title) == [kind |-> "chapter", start |-> start, title |-> title]
UrlToken(url)             == [kind |-> "url", start |-> Null, title |-> url]
TextToken(text)           == [kind |-> "text", start |-> Null, title |-> text]
\* A label of the stand-alone script's patterns and what follows it.
LabeledToken(label, ref)  == [kind |-> "labeled", start |-> label, title |-> ref]

\* The two shapes of item content the provider serves here.
\* Rich: chapters, a link, a duration, every media reference.
RichContent ==
    [ title         |-> "Rich",
      description   |-> << ChapterLine("00:01:30", "Intro"),
                           UrlToken("https://example.com/notes") >>,
      duration      |-> 3661000,
      permalink_url |-> "https://soundcloud.com/rich",
      stream_url    |-> "api/stream",
      transcodings  |-> << [protocol |-> "hls", url |-> "api/hls"],
                           [protocol |-> "progressive", url |-> "api/progressive"] >>,
      downloadable  |-> FALSE,
      download_url  |-> Null ]
\* Bare: plain text only, no duration, no media reference at all.
BareContent ==
    [ title         |-> "Bare",
      description   |-> << TextToken("no links here") >>,
      duration      |-> 0,
      permalink_url |-> "https://soundcloud.com/bare",
      stream_url    |-> Null,
      transcodings  |-> << >>,
      downloadable  |-> FALSE,
      download_url  |-> Null ]
Contents == {RichContent, BareContent}

Track(id, streamable, created_at, c) ==
    [ id |-> id, streamable |-> streamable, created_at |-> created_at,
      title |-> c.title, description |-> c.description, duration |-> c.duration,
      permalink_url |-> c.permalink_url, stream_url |-> c.stream_url,
      transcodings |-> c.transcodings, downloadable |-> c.downloadable,
      download_url |-> c.download_url ]

\* A null entry of a page's collection (a malformed record).
NullTrack == Track(0, FALSE, "", BareContent)

\* What the detail endpoint can answer for an id.
DetailRecords(id) ==
    { Track(id, s, t, c) : s \in BOOLEAN, t \in Timestamps, c \in Contents }
\* What a page of the enumeration can list.
SummaryRecords ==
    { Track(id, s, "2025-01-01T10:00:00.000Z", BareContent) :
          id \in Ids, s \in BOOLEAN } \cup {NullTrack}

\* ------------------------------------------------------- pure functions
\* String(n).padStart(2, "0"), without the padding.
padStartNone(n) == ToString(n)
\* String(n).padStart(2, "0").
padStart2(n) == IF n < 10 THEN "0" \o ToString(n) ELSE ToString(n)

formatDuration(milliseconds) ==
    IF milliseconds = 0 THEN "Unknown"
    ELSE LET seconds == milliseconds \div 1000
             minutes == seconds \div 60
             hours   == minutes \div 60
         IN  IF hours > 0
             THEN ToString(hours) \o ":" \o padStart2(minutes % 60)
                      \o ":" \o padStart2(seconds % 60)
             ELSE ToString(minutes) \o ":" \o padStart2(seconds % 60)


\* Characters of the pieces of text, by the classes the patterns name (the
\* pieces here are in lower case).
Letter ==
    {"a", "b", "c", "d", "e", "f", "g", "h", "i", "j", "k", "l", "m", "n",
     "o", "p", "q", "r", "s", "t", "u", "v", "w", "x", "y", "z"}
Digit == {"0", "1", "2", "3", "4", "5", "6", "7", "8", "9"}
WordChar == Letter \cup Digit \cup {"_"}
LabelChar == Letter \cup Digit \cup {"-"}
HostChar == LabelChar \cup {"."}
PathChar == WordChar \cup {"-", ".", "~", ":", "/", "?", "#", "=", "&", "%"}
Punctuation == {".", ",", ";", "!", "?"}

\* s[k], s.startsWith(prefix), s.slice(k - 1), s.includes(c).
at(s, k) == SubSeq(s, k, k)
startsWith(s, prefix) ==
    Len(s) >= Len(prefix) /\ SubSeq(s, 1, Len(prefix)) = prefix
slice(s, k) == IF k > Len(s) THEN "" ELSE SubSeq(s, k, Len(s))
includes(s, c) == \E k \in 1..Len(s) : at(s, k) = c

\* Where the run of characters of the class that starts at k ends: the
\* position of the first character at or after k that is outside the class.
RECURSIVE runEnd(_, _, _)
runEnd(s, k, class) ==
    IF k <= Len(s) /\ at(s, k) \in class THEN runEnd(s, k + 1, class) ELSE k

\* url.replace(/[.,;!?]+$/, "").
RECURSIVE stripPunctuation(_)
stripPunctuation(url) ==
    IF Len(url) > 0 /\ at(url, Len(url)) \in Punctuation
    THEN stripPunctuation(SubSeq(url, 1, Len(url) - 1))
    ELSE url

\* The number a run of digits writes.
RECURSIVE number(_)
number(digits) ==
    IF Len(digits) = 0 THEN 0
    ELSE 10 * number(SubSeq(digits, 1, Len(digits) - 1))
           + (CHOOSE d \in 0..9 :
                 at("0123456789", d + 1) = at(digits, Len(digits)))

\* What new URL(url) throws.
Invalid == "TypeError: Invalid URL"

\* new URL(url).hostname: the characters between the scheme and the port or
\* the path; the constructor throws without a scheme, with an empty host,
\* with a character no host has, and with a port above 65535.
hostname(url) ==
    LET k == IF startsWith(url, "https://") THEN 9
             ELSE IF startsWith(url, "http://") THEN 8 ELSE 0
        e == runEnd(url, k, HostChar)
        p == runEnd(url, e + 1, Digit)
    IN  IF k = 0 \/ e = k THEN Invalid
        ELSE IF e > Len(url) \/ at(url, e) \in {"/", "?", "#"}
        THEN SubSeq(url, k, e - 1)
        ELSE IF /\ at(url, e) = ":"
                /\ number(SubSeq(url, e + 1, p - 1)) <= 65535
                /\ (p > Len(url) \/ at(url, p) \in {"/", "?", "#"})
        THEN SubSeq(url, k, e - 1)
        ELSE Invalid

\* urlObj.hostname.includes(".") && urlObj.hostname.length > 3, without the
\* test.
validHostAny(host) == TRUE
\* urlObj.hostname.includes(".") && urlObj.hostname.length > 3.
validHost(host) == includes(host, ".") /\ Len(host) > 3

\* What becomes of a match: trailing punctuation removed, null under 8
\* characters, https:// put in front where the text does not start with
\* http, null when new URL throws or the host does not validate.
candidate(url) ==
    LET cleaned == stripPunctuation(url)
        full == IF startsWith(cleaned, "http") THEN cleaned
                ELSE "https://" \o cleaned
        host == hostname(full)
    IN  IF url = Null \/ Len(cleaned) < 8 THEN Null
        ELSE IF host # Invalid /\ validHost(host) THEN full
        ELSE Null

\* /https?:\/\/[a-zA-Z0-9.-]+\.[a-zA-Z]{2,}[^\s\n<>"]*\b/ matches at k.
httpAt(s, k) ==
    LET rest == slice(s, k)
        h == IF startsWith(rest, "https://") THEN k + 8
             ELSE IF startsWith(rest, "http://") THEN k + 7 ELSE 0
        e == runEnd(s, h, HostChar)
    IN  /\ h # 0
        /\ \E j \in (h + 1)..(e - 3) :
              /\ at(s, j) = "."
              /\ at(s, j + 1) \in Letter
              /\ at(s, j + 2) \in Letter

\* [a-zA-Z0-9-]+\.[a-zA-Z]{2,}(?:\/[...]*)?(?=\s|$) matches at k.
domainAt(s, k) ==
    LET l == runEnd(s, k, LabelChar)
        t == runEnd(s, l + 1, Letter)
    IN  /\ l > k
        /\ l <= Len(s)
        /\ at(s, l) = "."
        /\ t - (l + 1) >= 2
        /\ \/ t > Len(s)
           \/ /\ at(s, t) = "/"
              /\ \A j \in (t + 1)..Len(s) : at(s, j) \in PathChar

\* The two urlPatterns.
urlPatterns == << "http", "domain" >>

\* Where urlPattern matches in a piece of text without white space.
matchesAt(s, urlPattern) ==
    IF urlPattern = "http"
    THEN { k \in 1..Len(s) : httpAt(s, k) }
    ELSE { k \in 1..Len(s) :
              \/ startsWith(slice(s, k), "www.") /\ domainAt(s, k + 4)
              \/ domainAt(s, k) }

\* The leftmost match of urlPattern in the piece: from where it starts to the
\* last word character (a \b) for the first pattern, to the end of the piece
\* for the second; null without a match.
match(s, urlPattern) ==
    LET starts == matchesAt(s, urlPattern)
        first == CHOOSE k \in starts : \A j \in starts : k <= j
        last == CHOOSE k \in 1..Len(s) :
                    /\ at(s, k) \in WordChar
                    /\ \A j \in (k + 1)..Len(s) : at(s, j) \notin WordChar
    IN  IF starts = {} THEN Null
        ELSE IF urlPattern = "http" THEN SubSeq(s, first, last)
        ELSE slice(s, first)

\* cleanDescription.match(urlPattern)[0]: the first match in the text,
\* wherever it stands, after a label too; null without a match.
firstOf(description, urlPattern) ==
    LET found == SelectSeq(description,
                           LAMBDA tok : match(tok.title, urlPattern) # Null)
    IN  IF Len(found) > 0 THEN match(found[1].title, urlPattern) ELSE Null

\* The loop over urlPatterns: the first match of the first pattern, if it
\* validates, else the first match of the second.
bareUrl(description) ==
    LET viaHttp == candidate(firstOf(description, urlPatterns[1]))
        viaDomain == candidate(firstOf(description, urlPatterns[2]))
    IN  IF viaHttp # Null THEN viaHttp ELSE viaDomain

\* The labels of the stand-alone script's two patterns, in their order.
labels == << "shownotes", "meer info" >>

\* What follows the first occurrence of the label, null when there is none.
labeled(description, label) ==
    LET found == SelectSeq(description,
                           LAMBDA tok : /\ tok.kind = "labeled"
                                        /\ tok.start = label)
    IN  IF Len(found) > 0 THEN found[1].title ELSE Null

\* The stand-alone script's loop over patterns: for each label what follows
\* its first occurrence, if it validates.
labeledReference(description) ==
    LET viaFirst == candidate(labeled(description, labels[1]))
        viaSecond == candidate(labeled(description, labels[2]))
    IN  IF viaFirst # Null THEN viaFirst ELSE viaSecond

\* A description that is not there, and one that is not a string.
NoDescription == << [kind |-> "undefined", start |-> Null, title |-> Null] >>
NumberDescription == << [kind |-> "number", start |-> Null, title |-> "42"] >>

\* !description || typeof description !== "string".
notText(description) ==
    description \in {NoDescription, NumberDescription, << >>}

\* The line of the raw description a piece stands for.
line(tok) ==
    IF tok.kind = "chapter" THEN "(" \o tok.start \o ") " \o tok.title
    ELSE tok.title

\* title.trim().
RECURSIVE trimStart(_)
trimStart(s) ==
    IF Len(s) > 0 /\ at(s, 1) = " " THEN trimStart(slice(s, 2)) ELSE s
RECURSIVE trimEnd(_)
trimEnd(s) ==
    IF Len(s) > 0 /\ at(s, Len(s)) = " "
    THEN trimEnd(SubSeq(s, 1, Len(s) - 1))
    ELSE s
trim(s) == trimEnd(trimStart(s))

\* /\((\d{2}):(\d{2}):(\d{2})\)/ matches at k.
stampAt(s, k) ==
    /\ k + 9 <= Len(s)
    /\ at(s, k) = "(" /\ at(s, k + 9) = ")"
    /\ at(s, k + 3) = ":" /\ at(s, k + 6) = ":"
    /\ \A d \in {1, 2, 4, 5, 7, 8} : at(s, k + d) \in Digit

\* Where the leftmost time stamp of the line starts, 0 without one.
stamp(s) ==
    LET starts == { k \in 1..Len(s) : stampAt(s, k) }
    IN  IF starts = {} THEN 0
        ELSE CHOOSE k \in starts : \A j \in starts : k <= j

\* description.matchAll(chapterRegex) from line k on, mapped to chapters:
\* the time stamp as written, then \s*, then the rest of the line ([^\n]+)
\* as the title. With nothing but white space behind the time stamp, \s*
\* runs over the line break and the title is the next line that has a
\* character other than white space, whatever it holds; with no such line,
\* the title is a white space character given back, if there is one.
RECURSIVE matchAll(_, _)
matchAll(lines, k) ==
    IF k > Len(lines) THEN << >>
    ELSE LET p == stamp(lines[k])
             rest == slice(lines[k], p + 10)
             later == { n \in (k + 1)..Len(lines) : trim(lines[n]) # "" }
             next == CHOOSE n \in later : \A j \in later : n <= j
             start == SubSeq(lines[k], p + 1, p + 8)
         IN  IF p = 0 THEN matchAll(lines, k + 1)
             ELSE IF trim(rest) # ""
             THEN << [start |-> start, title |-> trim(rest)] >>
                      \o matchAll(lines, k + 1)
             ELSE IF later # {}
             THEN << [start |-> start, title |-> trim(lines[next])] >>
                      \o matchAll(lines, next + 1)
             ELSE IF rest # "" \/ \E n \in (k + 1)..Len(lines) : lines[n] # ""
             THEN << [start |-> start, title |-> ""] >>
             ELSE << >>

\* One chapter per match of chapterRegex in the raw description, in textual
\* order.
extractChapters(description) ==
    IF notText(description) THEN << >>
    ELSE matchAll([k \in DOMAIN description |-> line(description[k])], 1)

\* chapters.length > 0 ? chapters : undefined, without the test.
chaptersFieldAlways(chapters) == chapters
\* chapters.length > 0 ? chapters : undefined.
chaptersField(chapters) == IF Len(chapters) > 0 THEN chapters ELSE undefined

\* extractShowNotesUrl of episodes-manager.js: the loop over urlPatterns only.
extractShowNotesUrl(description) ==
    IF notText(description) THEN Null ELSE bareUrl(description)

\* extractShowNotesUrl of either copy: the stand-alone script tries the labels
\* first.
extractShowNotesUrlOf(variant, description) ==
    IF notText(description) THEN Null
    ELSE IF variant = "script" /\ labeledReference(description) # Null
    THEN labeledReference(description)
    ELSE extractShowNotesUrl(description)

\* new Date(createdAt).getTime(), in days since 2025-01-01T10:00:00.000Z.
getTime(createdAt) ==
    CASE createdAt = "2025-01-01T10:00:00.000Z" -> 0
      [] createdAt = "2025-02-01T10:00:00.000Z" -> 31
      [] createdAt = "2025-03-01T10:00:00.000Z" -> 59

\* A comparator that sorts ascending.
compareAscending(a, b) == getTime(a.createdAt) - getTime(b.createdAt)

\* The comparator of the result list: positive when a sorts after b.
compare(a, b) == getTime(b.createdAt) - getTime(a.createdAt)

\* Array.prototype.sort with that comparator: a stable sort, an element goes
\* behind every element that does not sort after it.
RECURSIVE InsertSorted(_, _)
InsertSorted(sorted, e) ==
    IF sorted = << >> THEN << e >>
    ELSE IF compare(Head(sorted), e) > 0
         THEN << e >> \o sorted
         ELSE << Head(sorted) >> \o InsertSorted(Tail(sorted), e)

RECURSIVE sortByCreatedAtDesc(_)
sortByCreatedAtDesc(list) ==
    IF list = << >> THEN << >>
    ELSE InsertSorted(sortByCreatedAtDesc(SubSeq(list, 1, Len(list) - 1)),
                      list[Len(list)])

\* ------------------------------------------------------ media resolution
\* A media endpoint fails, answers without a url field, or answers with one.
MediaResponses == {"fail", "nourl", "url"}
ResolvedUrl(ref) == "cdn/" \o ref

\* The renditions loop of getStreamUrl from rendition k on: the resolved URL
\* of the first progressive rendition that answers with one, and the requests
\* issued on the way.
\* transcoding.format && transcoding.format.protocol === "progressive"
isProgressiveAny(transcoding) == TRUE
isProgressive(transcoding) == transcoding.protocol = "progressive"

\* if (track.downloadable && track.download_url): the download reference with
\* the client id appended, with no request made; null otherwise.
downloadReferenceUnmarked(track, cid) ==
    IF track.download_url # Null
    THEN track.download_url \o "?client_id=" \o cid
    ELSE Null
downloadReference(track, cid) ==
    IF track.downloadable /\ track.download_url # Null
    THEN track.download_url \o "?client_id=" \o cid
    ELSE Null

RECURSIVE tryTranscodings(_, _, _)
tryTranscodings(transcodings, net, k) ==
    IF k > Len(transcodings) THEN [value |-> Null, requests |-> << >>]
    ELSE LET transcoding == transcodings[k]
             rest == tryTranscodings(transcodings, net, k + 1)
         IN  IF ~isProgressive(transcoding) THEN rest
             ELSE IF net[transcoding.url] = "url"
                  THEN [value |-> ResolvedUrl(transcoding.url),
                        requests |-> << transcoding.url >>]
                  ELSE [value |-> rest.value,
                        requests |-> << transcoding.url >> \o rest.requests]

\* A resolution that hands the error of a failed direct request to its caller.
getStreamUrlErrorValue(track, net, cid) ==
    IF track.stream_url # Null /\ net[track.stream_url] = "fail"
    THEN [value |-> "Error: request failed", requests |-> << track.stream_url >>]
    ELSE [value |-> Null, requests |-> << >>]

\* A resolution that asks the renditions before the direct reference.
getStreamUrlRenditionsFirst(track, net, cid) ==
    LET viaRenditions == tryTranscodings(track.transcodings, net, 1)
    IN  IF viaRenditions.value # Null \/ track.stream_url = Null
        THEN viaRenditions
        ELSE [value |-> IF net[track.stream_url] = "url"
                        THEN ResolvedUrl(track.stream_url) ELSE Null,
              requests |-> viaRenditions.requests \o << track.stream_url >>]

\* getStreamUrl: [value: the URL or null, requests: the requests issued].
getStreamUrl(track, net, cid) ==
    LET viaRenditions == tryTranscodings(track.transcodings, net, 1)
        afterDirect ==
            IF viaRenditions.value # Null THEN viaRenditions
            ELSE [value |-> downloadReference(track, cid),
                  requests |-> viaRenditions.requests]
    IN  IF track.stream_url # Null
        THEN IF net[track.stream_url] = "fail"
             THEN \* the rejection reaches the outer catch
                  [value |-> Null, requests |-> << track.stream_url >>]
             ELSE IF net[track.stream_url] = "url"
                  THEN [value |-> ResolvedUrl(track.stream_url),
                        requests |-> << track.stream_url >>]
                  ELSE [value |-> afterDirect.value,
                        requests |-> << track.stream_url >> \o afterDirect.requests]
        ELSE afterDirect

\* ------------------------------------------------------------- the store
\* A merge in which the first record's values win.
SpreadReversed(a, b) ==
    [k \in DOMAIN a \cup DOMAIN b |-> IF k \in DOMAIN a THEN a[k] ELSE b[k]]

\* { ...a, ...b }: every key of either, b's value where b has the key.
Spread(a, b) ==
    [k \in DOMAIN a \cup DOMAIN b |-> IF k \in DOMAIN b THEN b[k] ELSE a[k]]

\* findIndex's result for no match (-1 in the source, indices from 0 there).
NotFound == 0

\* A lookup that never matches.
findIndexMissed(episodes, id) == NotFound

\* episodes.findIndex(e => e.id === id).
findIndex(episodes, id) ==
    IF \E k \in DOMAIN episodes : episodes[k].id = id
    THEN CHOOSE k \in DOMAIN episodes :
             /\ episodes[k].id = id
             /\ \A j \in DOMAIN episodes : episodes[j].id = id => k <= j
    ELSE NotFound

\* Dating that sets created_date on every call.
datedEpisodeAlways(episodes, episodeData, t1, t2) ==
    Spread(episodeData, [updated_date |-> t1, created_date |-> t2])

\* episodeData as upsertEpisode leaves it: updated_date set from the first
\* clock reading, created_date from the second when the identity is new.
datedEpisode(episodes, episodeData, t1, t2) ==
    IF findIndex(episodes, episodeData.id) = NotFound
    THEN Spread(episodeData, [updated_date |-> t1, created_date |-> t2])
    ELSE Spread(episodeData, [updated_date |-> t1])

\* An upsert that puts a new episode first.
upsertEpisodeUnshift(episodes, episodeData, t1, t2) ==
    LET existingIndex == findIndex(episodes, episodeData.id)
        dated == datedEpisode(episodes, episodeData, t1, t2)
    IN  IF existingIndex # NotFound
        THEN [episodes EXCEPT ![existingIndex] = Spread(@, dated)]
        ELSE << dated >> \o episodes

\* An upsert that replaces the stored record instead of merging into it.
upsertEpisodeReplace(episodes, episodeData, t1, t2) ==
    LET existingIndex == findIndex(episodes, episodeData.id)
        dated == datedEpisode(episodes, episodeData, t1, t2)
    IN  IF existingIndex # NotFound
        THEN [episodes EXCEPT ![existingIndex] = dated]
        ELSE Append(episodes, dated)

\* An upsert that appends whether or not the identity is stored.
upsertEpisodeAppend(episodes, episodeData, t1, t2) ==
    Append(episodes, datedEpisode(episodes, episodeData, t1, t2))

\* The collection upsertEpisode hands to db.set.
upsertEpisode(episodes, episodeData, t1, t2) ==
    LET existingIndex == findIndex(episodes, episodeData.id)
        dated == datedEpisode(episodes, episodeData, t1, t2)
    IN  IF existingIndex # NotFound
        THEN [episodes EXCEPT ![existingIndex] = Spread(@, dated)]
        ELSE Append(episodes, dated)

\* JSON.stringify of an episode: a key whose value is undefined is left out.
stringifyEpisode(e) ==
    IF "chapters" \in DOMAIN e /\ e.chapters = undefined
    THEN [k \in DOMAIN e \ {"chapters"} |-> e[k]]
    ELSE e

\* JSON.stringify of the collection.
stringify(episodes) == [k \in DOMAIN episodes |-> stringifyEpisode(episodes[k])]

\* db.set("episodes", episodes): the document in memory, and the store file
\* the synchronous write leaves.
dbSet(episodes) == [has |-> TRUE, episodes |-> episodes]

\* A db.set that keeps the document in memory and leaves the file alone.
writtenNever(document) == [has |-> FALSE, episodes |-> << >>]

written(document) == [has |-> document.has, episodes |-> stringify(document.episodes)]

\* The record processTrackData assembles for a streamable item.
processedTrack(track, streamUrl) ==
    LET chapters == extractChapters(track.description)
    IN  [ id                |-> track.id,
          title             |-> track.title,
          description       |-> track.description,
          duration          |-> track.duration,
          durationFormatted |-> formatDuration(track.duration),
          createdAt         |-> track.created_at,
          permalink         |-> track.permalink_url,
          streamUrl         |-> streamUrl,
          showNotes         |-> extractShowNotesUrl(track.description),
          chapters          |-> chaptersField(chapters) ]

\* A check that lets every item through.
isStreamableAlways(track) == TRUE

\* if (detailedTrack.streamable): the item is processed, else skipped.
isStreamable(track) == track.streamable

\* A record choice without the fallback to the summary record.
effectiveTrackDetailOnly(detail, track) == detail

\* (await getTrackDetails(track.id)) || track, null standing for a failed
\* detail request.
effectiveTrack(detail, track) == IF detail = NullTrack THEN track ELSE detail

\* The media endpoints a record refers to, and what they can answer.
RefsOf(track) ==
    (IF track.stream_url # Null THEN {track.stream_url} ELSE {})
        \cup { track.transcodings[k].url : k \in DOMAIN track.transcodings }
Nets(track) == [RefsOf(track) -> MediaResponses]

\* -------------------------------------------------- credential resolution
\* A candidate script: its fetch fails, its body matches no token pattern,
\* or a pattern matches in it.
ScriptResponses == {"fail", "nomatch", "token"}
ScrapedClientId == "scrapedClientId"

\* extractClientId after the profile page was fetched: the token of the first
\* script a pattern matches in; null when the function throws.
extractClientId(scripts) ==
    IF \E k \in DOMAIN scripts : scripts[k] = "token"
    THEN ScrapedClientId
    ELSE Null

\* ------------------------------------------------------------------ state
VARIABLES
    file,             \* episodes.json: [has: the episodes key is there, episodes]
    db,               \* the run's JSONdb object, the document in memory
    now,              \* the wall clock
    pc,               \* the stage of the run
    clientId,
    nextUrl,          \* fetchAllTracks: number of the page to request, 0 for none
    allTracks,
    tracks,
    i,                \* processTrackData's loop index
    detailedTrack,    \* the effective record of the latest iteration
    detailFailed,     \* getTrackDetails returned null in the latest iteration
    mediaRequests,    \* the media requests of the latest iteration
    processedStreams,
    returned,         \* processTrackData's return value
    err,              \* the stage whose exception rejected the run
    startFile,        \* the store file as the run found it
    episodeData,      \* the argument of the latest direct upsertEpisode call
    upserts,          \* upsertEpisode calls completed since the store was opened
    prev,             \* the run before, where runs are compared: whether it
                      \* reached Done, and the episode data it processed
    resolved,         \* the latest direct getStreamUrl call: its argument, the
                      \* network's answers, its result and its requests
    frame,            \* scrapeEpisodes followed request by request: where the
                      \* async function stands and its loop counters
    outstanding,      \* the network requests issued and not yet settled
    events,           \* the detail requests issued and the upserts completed
    procs,            \* runs on one store file at the same time: for each
                      \* whether it runs, its JSONdb object's document, and
                      \* the identities whose upsert it has completed
    files,            \* the downloads directory: file name -> "complete" or
                      \* "partial"
    dl,               \* the download run: where it stands, the episodes it
                      \* loaded, its download list, and how it and the run
                      \* before it went
    requests,         \* the file names the download run requested audio for
    bot,              \* the bot object: the audio player's status, whether
                      \* this.connection is set and by whom, the channel it
                      \* joined (0 for none), whether the connection is up,
                      \* this.currentEpisode
    localFiles,       \* this.localFiles.length
    created,          \* the downloads directory as readdirSync lists it: for
                      \* each listed file the rank of the creation timestamp
                      \* its name carries (1 the oldest)
    lastEvent,        \* the handler of the bot that ran last
    autoStarted,      \* the episodes the Idle handler started one after the
                      \* other since the last command, counted to MaxChain
    fetch,            \* fetchAllTracks called by itself: the provider's
                      \* pages, where the function stands, nextUrl, allTracks
                      \* and what it did so far
    sel,              \* the chapter interaction being handled: where its
                      \* handler stands, how the interaction was answered
                      \* first, and the response calls made on it
    call,             \* another function called by itself: its name, what
                      \* it is called with and what it returns
    link,             \* extractShowNotesUrl called by itself: which of the
                      \* two copies, the description and the result
    cred              \* extractClientId called by itself: which of the two
                      \* copies, the script URLs collected, where the function
                      \* stands, the requests made and their answers, and
                      \* the module's clientId

vars == << file, db, now, pc, clientId, nextUrl, allTracks, tracks, i,
           detailedTrack, mediaRequests, processedStreams, returned, err,
           startFile, episodeData, upserts, prev, detailFailed, resolved,
           frame, outstanding, events, procs, files, dl, requests, bot,
           localFiles, created, lastEvent, autoStarted, fetch,
           cred, link, call, sel >>


\* The variables only the pipeline run uses.
runVars == << pc, clientId, nextUrl, allTracks, tracks, i, detailedTrack,
              mediaRequests, processedStreams, returned, err, startFile, prev,
              detailFailed >>

\* The variables of scrapeEpisodes and of the store.
pipelineVars == << file, db, now, episodeData, upserts, runVars >>

\* The variables scrapeEpisodes and the store do not touch.
mediaVars == << resolved >>
stepVars == << frame, outstanding, events >>
concurrentVars == << procs >>
downloadVars == << files, dl, requests >>
botVars == << bot, localFiles, created, lastEvent, autoStarted >>
callVars == << fetch, cred, link, call, sel >>
otherVars ==
    << mediaVars, stepVars, concurrentVars, downloadVars, botVars, callVars >>


\* db.get("episodes") || []
episodesOf(document) == IF document.has THEN document.episodes ELSE << >>

EmptyDocument == [has |-> FALSE, episodes |-> << >>]

\* No upsertEpisode call yet.
NoEpisode == [id |-> 0]

\* An episode without the store's date bookkeeping.
Undated(e) == [k \in DOMAIN e \ {"updated_date", "created_date"} |-> e[k]]
UndatedAll(list) == [k \in DOMAIN list |-> Undated(list[k])]

NoRun == [done |-> FALSE, processed |-> << >>]

\* No direct getStreamUrl call yet.
NoCall == [track |-> NullTrack, net |-> << >>, value |-> Null, requests |-> << >>]

\* What scrapeEpisodes needs to know of an effective record to go on: the
\* streamable mark, whether there is a direct reference, and the number of
\* progressive renditions.
Shapes == [streamable : BOOLEAN, stream : BOOLEAN, renditions : 0..MaxRenditions]

\* scrapeEpisodes is not running.
IdleFrame ==
    [at |-> "idle", awaiting |-> FALSE, n |-> 0, total |-> 0, k |-> 0, r |-> 0,
     shape |-> [streamable |-> FALSE, stream |-> FALSE, renditions |-> 0]]

\* The runs that may go on at the same time.
Runs == {"A", "B"}

\* A run that has not been started.
NotRunning == [open |-> FALSE, db |-> EmptyDocument, completed |-> {}]

\* No file in the downloads directory.
NoFiles == [name \in {} |-> "complete"]

\* No download run yet.
NoDownload ==
    [at |-> "idle", variant |-> "manager", episodes |-> << >>, queue |-> << >>,
     pos |-> 0, allOk |-> FALSE, prevOk |-> FALSE]

\* fetchAllTracks not called.
NoFetch ==
    [at |-> "idle", pages |-> << >>, nextUrl |-> 0, allTracks |-> << >>,
     did |-> << >>]

\* No chapter interaction received.
NoInteraction == [at |-> "idle", responded |-> "no", did |-> << >>]

\* No other function called.
NotCalled == [fn |-> "none", input |-> << >>, output |-> << >>]

\* extractShowNotesUrl not called.
NoLink == [variant |-> "manager", description |-> << >>, value |-> Null]

\* extractClientId not called.
NoExtract ==
    [at |-> "idle", variant |-> "manager", found |-> << >>,
     scriptUrls |-> << >>, k |-> 0, did |-> << >>, clientId |-> Null]

\* The bot object as its constructor leaves it.
NoBot ==
    [player |-> "Idle", connection |-> "none", channelId |-> 0, up |-> FALSE,
     currentEpisode |-> 0]

\* Nothing but the pipeline and the store has acted.
OthersIdle ==
    /\ fetch = NoFetch
    /\ cred = NoExtract
    /\ link = NoLink
    /\ call = NotCalled
    /\ sel = NoInteraction
    /\ bot = NoBot
    /\ localFiles = 0
    /\ created = << >>
    /\ lastEvent = "off"
    /\ autoStarted = 0
    /\ resolved = NoCall
    /\ frame = IdleFrame
    /\ outstanding = << >>
    /\ events = << >>
    /\ procs = [r \in Runs |-> NotRunning]
    /\ files = NoFiles
    /\ dl = NoDownload
    /\ requests = << >>

Init ==
    /\ file = EmptyDocument
    /\ db = EmptyDocument
    /\ now = 0
    /\ pc = "Idle"
    /\ clientId = Null
    /\ nextUrl = 0
    /\ allTracks = << >>
    /\ tracks = << >>
    /\ i = 0
    /\ detailedTrack = NullTrack
    /\ mediaRequests = << >>
    /\ processedStreams = << >>
    /\ returned = << >>
    /\ err = Null
    /\ startFile = EmptyDocument
    /\ episodeData = NoEpisode
    /\ upserts = 0
    /\ prev = NoRun
    /\ detailFailed = FALSE
    /\ OthersIdle

\* ------------------------------------------------------------------- run
\* scrapeEpisodes is called: new JSONdb reads the store file.
StartRunWith(before) ==
    /\ pc \in {"Idle", "Done", "Failed", "Terminated"}
    /\ db' = file
    /\ startFile' = file
    /\ pc' = "ResolvingCredential"
    /\ clientId' = Null
    /\ nextUrl' = 0
    /\ allTracks' = << >>
    /\ tracks' = << >>
    /\ i' = 0
    /\ detailedTrack' = NullTrack
    /\ mediaRequests' = << >>
    /\ processedStreams' = << >>
    /\ returned' = << >>
    /\ err' = Null
    /\ upserts' = 0
    /\ prev' = before
    /\ detailFailed' = FALSE
    /\ UNCHANGED << file, now, episodeData >>
    /\ UNCHANGED otherVars

StartRun == StartRunWith(NoRun)

\* The same, keeping what the run before did.
StartRunAfter ==
    StartRunWith([done |-> pc = "Done",
                  processed |-> UndatedAll(processedStreams)])

\* An exception that is swallowed, the run going on to the items.
RejectSwallowed(stage) ==
    /\ pc' = "ProcessingItems"
    /\ err' = stage

\* The run is rejected with the exception of the given stage.
Reject(stage) ==
    /\ pc' = "Failed"
    /\ err' = stage

\* await extractClientId()
ResolveCredential ==
    /\ pc = "ResolvingCredential"
    /\ \E page \in {"fail", "ok"}, n \in 0..MaxScripts :
        \E scripts \in [1..n -> ScriptResponses] :
            LET found == IF page = "fail" THEN Null ELSE extractClientId(scripts)
            IN  IF found = Null
                THEN /\ Reject("ResolvingCredential")
                     /\ UNCHANGED clientId
                ELSE /\ clientId' = found
                     /\ pc' = "ResolvingOwner"
                     /\ UNCHANGED err
    /\ UNCHANGED << file, db, now, nextUrl, allTracks, tracks, i, detailedTrack,
                    mediaRequests, processedStreams, returned, startFile,
                    episodeData, upserts, prev, detailFailed >>
    /\ UNCHANGED otherVars

\* const userInfo = await getUserInfo(); fetchAllTracks starts at page 1.
ResolveOwner ==
    /\ pc = "ResolvingOwner"
    /\ \E ok \in BOOLEAN :
        IF ok
        THEN /\ pc' = "Enumerating"
             /\ nextUrl' = 1
             /\ UNCHANGED err
        ELSE /\ Reject("ResolvingOwner")
             /\ UNCHANGED nextUrl
    /\ UNCHANGED << file, db, now, clientId, allTracks, tracks, i, detailedTrack,
                    mediaRequests, processedStreams, returned, startFile,
                    episodeData, upserts, prev, detailFailed >>
    /\ UNCHANGED otherVars

\* The collections a page can carry when `room` more items fit the bound.
Collections(room) ==
    UNION { [1..n -> SummaryRecords] : n \in 0..room }

\* One iteration of fetchAllTracks' loop: a page is requested; after the last
\* page processTrackData starts.
FetchPage ==
    /\ pc = "Enumerating"
    /\ nextUrl # 0
    /\ \/ /\ Reject("Enumerating")
          /\ UNCHANGED << nextUrl, allTracks, tracks >>
       \/ \E collection \in Collections(MaxTracks - Len(allTracks)),
             next_href \in BOOLEAN :
            /\ next_href => nextUrl < MaxPages
            /\ allTracks' = allTracks \o collection
            /\ IF next_href
               THEN /\ nextUrl' = nextUrl + 1
                    /\ UNCHANGED << pc, tracks >>
               ELSE /\ nextUrl' = 0
                    /\ tracks' = allTracks'
                    /\ pc' = "ProcessingItems"
            /\ UNCHANGED err
    /\ UNCHANGED << file, db, now, clientId, i, detailedTrack, mediaRequests,
                    processedStreams, returned, startFile, episodeData, upserts,
                    prev, detailFailed >>
    /\ UNCHANGED otherVars

\* One iteration of processTrackData's loop, for tracks[i].
ProcessTrack ==
    /\ pc = "ProcessingItems"
    /\ i < Len(tracks)
    /\ now < MaxClock
    /\ LET track == tracks[i + 1]
       IN  IF track = NullTrack
           THEN \* track.id of null throws and nothing catches it
                /\ Reject("ProcessingItems")
                /\ UNCHANGED << file, db, now, i, detailedTrack, detailFailed,
                                mediaRequests, processedStreams, upserts >>
           ELSE \E detail \in {NullTrack} \cup DetailRecords(track.id) :
                LET effective == effectiveTrack(detail, track)
                    t == now + 1
                IN  /\ now' = t
                    /\ detailedTrack' = effective
                    /\ detailFailed' = (detail = NullTrack)
                    /\ i' = i + 1
                    /\ UNCHANGED << pc, err >>
                    /\ IF isStreamable(effective)
                       THEN \E net \in Nets(effective) :
                            LET media == getStreamUrl(effective, net, clientId)
                                assembled == processedTrack(effective, media.value)
                                episodes == episodesOf(db)
                            IN  /\ mediaRequests' = media.requests
                                /\ upserts' = upserts + 1
                                /\ db' = dbSet(upsertEpisode(episodes, assembled, t, t))
                                /\ file' = written(db')
                                /\ processedStreams' =
                                       Append(processedStreams,
                                              datedEpisode(episodes, assembled, t, t))
                       ELSE /\ mediaRequests' = << >>
                            /\ UNCHANGED << file, db, processedStreams, upserts >>
    /\ UNCHANGED << clientId, nextUrl, allTracks, tracks, returned, startFile,
                    episodeData, prev >>
    /\ UNCHANGED otherVars

\* The loop is over: the result is sorted and returned.
FinishProcessing ==
    /\ pc = "ProcessingItems"
    /\ i = Len(tracks)
    /\ returned' = sortByCreatedAtDesc(processedStreams)
    /\ pc' = "Done"
    /\ UNCHANGED << file, db, now, clientId, nextUrl, allTracks, tracks, i,
                    detailedTrack, mediaRequests, processedStreams, err,
                    startFile, episodeData, upserts, prev, detailFailed >>
    /\ UNCHANGED otherVars

Next ==
    \/ StartRun
    \/ ResolveCredential
    \/ ResolveOwner
    \/ FetchPage
    \/ ProcessTrack
    \/ FinishProcessing

Spec == Init /\ [][Next]_vars

\* Successive runs, each knowing what the run before processed.
NextTwice ==
    \/ StartRunAfter
    \/ ResolveCredential
    \/ ResolveOwner
    \/ FetchPage
    \/ ProcessTrack
    \/ FinishProcessing

SpecTwice == Init /\ [][NextTwice]_vars

\* ------------------------------------------- upsertEpisode called directly
\* The records a caller passes: an identity, and a title and a chapters key
\* that may each be missing; chapters may be undefined.
NoFields == [k \in {} |-> Null]
EpisodeRecords ==
    { Spread(Spread([id |-> id], title), chapters) :
          id \in Ids,
          title \in {NoFields, [title |-> "Rich"], [title |-> "Bare"]},
          chapters \in {NoFields, [chapters |-> undefined],
                        [chapters |-> << [start |-> "00:01:30", title |-> "Intro"] >>]} }

\* The store as initializeDatabase leaves it on first use.
InitUpsert ==
    /\ file = dbSet(<< >>)
    /\ db = dbSet(<< >>)
    /\ now = 0
    /\ pc = "Idle"
    /\ clientId = Null
    /\ nextUrl = 0
    /\ allTracks = << >>
    /\ tracks = << >>
    /\ i = 0
    /\ detailedTrack = NullTrack
    /\ mediaRequests = << >>
    /\ processedStreams = << >>
    /\ returned = << >>
    /\ err = Null
    /\ startFile = EmptyDocument
    /\ episodeData = NoEpisode
    /\ upserts = 0
    /\ prev = NoRun
    /\ detailFailed = FALSE
    /\ OthersIdle

\* await upsertEpisode(record): the clock is read twice, time may pass before
\* each reading.
UpsertCall ==
    /\ upserts < MaxUpserts
    /\ \E record \in EpisodeRecords, t1 \in {now, now + 1} :
        \E t2 \in {t1, t1 + 1} :
            /\ t2 <= MaxClock
            /\ episodeData' = record
            /\ db' = dbSet(upsertEpisode(episodesOf(db), record, t1, t2))
            /\ file' = written(db')
            /\ now' = t2
            /\ upserts' = upserts + 1
    /\ UNCHANGED runVars
    /\ UNCHANGED otherVars

\* The process ends and a new one opens the store file.
Reopen ==
    /\ db # file
    /\ db' = file
    /\ UNCHANGED << file, now, episodeData, upserts >>
    /\ UNCHANGED runVars
    /\ UNCHANGED otherVars

NextUpsert ==
    \/ UpsertCall
    \/ Reopen

SpecUpsert == InitUpsert /\ [][NextUpsert]_vars

\* -------------------------------------------------- a run that is killed
\* The process of a run is killed between two of its steps: what it holds in
\* memory is gone, the store file stays as it is.
Terminate ==
    /\ pc \in {"ResolvingCredential", "ResolvingOwner", "Enumerating",
                "ProcessingItems"}
    /\ pc' = "Terminated"
    /\ UNCHANGED << file, db, now, episodeData, upserts, clientId, nextUrl,
                    allTracks, tracks, i, detailedTrack, mediaRequests,
                    processedStreams, returned, err, startFile, prev,
                    detailFailed >>
    /\ UNCHANGED otherVars

\* scrapeEpisodes is called again; after a killed run, what that run had
\* processed and the store it had found are kept for comparison.
StartRunResumed ==
    StartRunWith(IF pc = "Terminated"
                 THEN [done |-> FALSE, processed |-> UndatedAll(processedStreams),
                       start |-> startFile]
                 ELSE NoRun)

NextResume ==
    \/ StartRunResumed
    \/ Terminate
    \/ ResolveCredential
    \/ ResolveOwner
    \/ FetchPage
    \/ ProcessTrack
    \/ FinishProcessing

SpecResume == Init /\ [][NextResume]_vars

\* ------------------------------------------- the run, request by request
\* The places of scrapeEpisodes where a network request is issued: the
\* profile page, a candidate script, the owner, a page of tracks, the detail
\* record of an item, its direct reference, a progressive rendition.
RequestPoints ==
    {"homepage", "script", "resolve", "tracks", "detail", "stream", "rendition"}

\* A call that is not awaited.
suspendsNever(point) == FALSE

\* await axios.get(...): the function is suspended until the request settles.
suspends(point) == TRUE

\* After an item: the next item's detail request, or the end of the loop.
nextItem(f) ==
    IF f.k < f.total
    THEN [f EXCEPT !.at = "detail", !.k = f.k + 1, !.r = 0]
    ELSE [f EXCEPT !.at = "done"]

\* The renditions loop from progressive rendition r + 1 on, then the upsert.
nextRendition(f) ==
    IF f.r < f.shape.renditions
    THEN [f EXCEPT !.at = "rendition", !.r = f.r + 1]
    ELSE [f EXCEPT !.at = "upsert"]

\* Where the function goes on when the awaited request has settled, for each
\* way the request can settle.
Resumptions(f) ==
    CASE f.at = "homepage" ->
            { [f EXCEPT !.at = "failed"],
              [f EXCEPT !.at = "script", !.n = 1] }
      [] f.at = "script" ->
            { [f EXCEPT !.at = "resolve"] }
                \cup (IF f.n < MaxScripts
                      THEN { [f EXCEPT !.n = f.n + 1] }
                      ELSE { })
                \cup { [f EXCEPT !.at = "failed"] }
      [] f.at = "resolve" ->
            { [f EXCEPT !.at = "failed"],
              [f EXCEPT !.at = "tracks", !.n = 1] }
      [] f.at = "tracks" ->
            { [f EXCEPT !.at = "failed"] }
                \cup { [f EXCEPT !.total = f.total + c, !.n = f.n + 1] :
                           c \in { c \in 0..(MaxTracks - f.total) :
                                       f.n < MaxPages } }
                \cup { IF f.total + c > 0
                       THEN [f EXCEPT !.total = f.total + c, !.at = "detail",
                                      !.k = 1, !.r = 0]
                       ELSE [f EXCEPT !.at = "done"] :
                           c \in 0..(MaxTracks - f.total) }
      [] f.at = "detail" ->
            { IF ~shape.streamable THEN nextItem([f EXCEPT !.shape = shape])
              ELSE IF shape.stream THEN [f EXCEPT !.shape = shape, !.at = "stream"]
              ELSE nextRendition([f EXCEPT !.shape = shape]) :
                  shape \in Shapes }
      [] f.at = "stream" ->
            { [f EXCEPT !.at = "upsert"], nextRendition(f) }
      [] f.at = "rendition" ->
            { [f EXCEPT !.at = "upsert"], nextRendition(f) }
      [] OTHER -> { }

\* scrapeEpisodes() is called.
Call ==
    /\ frame.at \in {"idle", "done", "failed"}
    /\ frame' = [IdleFrame EXCEPT !.at = "homepage"]
    /\ events' = << >>
    /\ UNCHANGED << outstanding, pipelineVars, mediaVars, concurrentVars,
                    downloadVars, botVars, callVars >>

\* axios.get(...) at a request point.
Issue ==
    /\ frame.at \in RequestPoints
    /\ ~frame.awaiting
    /\ outstanding' = Append(outstanding, frame.at)
    /\ frame' = [frame EXCEPT !.awaiting = suspends(frame.at)]
    /\ events' = IF frame.at = "detail"
                 THEN Append(events, << "detail", frame.k >>)
                 ELSE events
    /\ UNCHANGED << pipelineVars, mediaVars, concurrentVars, downloadVars,
                    botVars, callVars >>

\* The awaited request settles and the function goes on.
Settle ==
    /\ frame.awaiting
    /\ outstanding # << >>
    /\ outstanding' = SubSeq(outstanding, 1, Len(outstanding) - 1)
    /\ \E next \in Resumptions(frame) :
           frame' = [next EXCEPT !.awaiting = FALSE]
    /\ UNCHANGED << events, pipelineVars, mediaVars, concurrentVars,
                    downloadVars, botVars, callVars >>

\* await upsertEpisode(processedTrack) and the push: no request is involved.
UpsertStep ==
    /\ frame.at = "upsert"
    /\ frame' = nextItem(frame)
    /\ events' = Append(events, << "upsert", frame.k >>)
    /\ UNCHANGED << outstanding, pipelineVars, mediaVars, concurrentVars,
                    downloadVars, botVars, callVars >>

NextSteps ==
    \/ Call
    \/ Issue
    \/ Settle
    \/ UpsertStep

SpecSteps == Init /\ [][NextSteps]_vars

\* ------------------------------------------- two runs on one store file
\* The episodes the runs upsert.
RunRecords ==
    { processedTrack(Track(id, TRUE, "2025-01-01T10:00:00.000Z", c), Null) :
          id \in Ids, c \in Contents }

\* A db.get that reads the store file again.
dbGetFresh(memory, onDisk) == episodesOf(onDisk)

\* db.get("episodes") || []: the document the JSONdb object loaded when it
\* was constructed, with what the object itself has set since.
dbGet(memory, onDisk) == episodesOf(memory)

\* A run starts: new JSONdb(EPISODES_JSON) loads the store file.
OpenStore(r) ==
    /\ ~procs[r].open
    /\ procs' = [procs EXCEPT ![r] = [open |-> TRUE, db |-> file, completed |-> {}]]
    /\ UNCHANGED << pipelineVars, mediaVars, stepVars, downloadVars, botVars,
                    callVars >>

\* A run upserts an episode.
UpsertBy(r) ==
    /\ procs[r].open
    /\ now < MaxClock
    /\ \E e \in RunRecords :
          LET t == now + 1
              document == dbSet(upsertEpisode(dbGet(procs[r].db, file), e, t, t))
          IN  /\ procs' = [procs EXCEPT ![r].db = document,
                                        ![r].completed = @ \cup {e.id}]
              /\ file' = written(document)
              /\ now' = t
    /\ UNCHANGED << db, episodeData, upserts, runVars, mediaVars, stepVars,
                    downloadVars, botVars, callVars >>

\* A run ends.
EndRun(r) ==
    /\ procs[r].open
    /\ procs' = [procs EXCEPT ![r].open = FALSE]
    /\ UNCHANGED << pipelineVars, mediaVars, stepVars, downloadVars, botVars,
                    callVars >>

NextConcurrent ==
    \E r \in Runs :
        \/ OpenStore(r)
        \/ UpsertBy(r)
        \/ EndRun(r)

SpecConcurrent == Init /\ [][NextConcurrent]_vars

\* ------------------------------------------------------ the download step
\* s.replace(/[class]/g, to): every character of the class replaced.
RECURSIVE replaceAll(_, _, _)
replaceAll(s, class, to) ==
    IF Len(s) = 0 THEN ""
    ELSE (IF at(s, 1) \in class THEN to ELSE at(s, 1))
            \o replaceAll(slice(s, 2), class, to)

\* s.replace(/\s+/g, " ").
RECURSIVE collapse(_)
collapse(s) ==
    IF Len(s) = 0 THEN ""
    ELSE IF at(s, 1) = " " THEN " " \o collapse(trimStart(s))
    ELSE at(s, 1) \o collapse(slice(s, 2))

\* Where the character stands first in s, 0 when it does not.
indexOf(s, c) ==
    LET found == { k \in 1..Len(s) : at(s, k) = c }
    IN  IF found = {} THEN 0 ELSE CHOOSE k \in found : \A j \in found : k <= j

\* s.replace(/\.\d+/, ""): the first dot that has a digit behind it, and
\* its digits, removed.
withoutMilliseconds(s) ==
    LET found == { k \in 1..(Len(s) - 1) :
                      at(s, k) = "." /\ at(s, k + 1) \in Digit }
        k == CHOOSE k \in found : \A j \in found : k <= j
    IN  IF found = {} THEN s
        ELSE SubSeq(s, 1, k - 1) \o slice(s, runEnd(s, k + 1, Digit))

\* episode.createdAt with the first T, the colons, a trailing Z and the
\* milliseconds rewritten; null without createdAt.
timestampPrefix(createdAt) ==
    IF createdAt \in {Null, ""} THEN Null
    ELSE LET t == indexOf(createdAt, "T")
             underscored == IF t = 0 THEN createdAt
                            ELSE SubSeq(createdAt, 1, t - 1) \o "_"
                                    \o slice(createdAt, t + 1)
             dashed == replaceAll(underscored, {":"}, "-")
             cut == IF Len(dashed) > 0 /\ at(dashed, Len(dashed)) = "Z"
                    THEN SubSeq(dashed, 1, Len(dashed) - 1)
                    ELSE dashed
         IN  withoutMilliseconds(cut)

\* The characters /[<>:"/\\|?*]/ names.
InvalidChar == {"<", ">", ":", "\"", "/", "\\", "|", "?", "*"}

\* episode.title without the characters a file name cannot have, white
\* space collapsed and trimmed, 200 characters at most.
sanitizedTitle(title) ==
    LET cleaned == trim(collapse(replaceAll(title, InvalidChar, "")))
    IN  IF Len(cleaned) > 200 THEN SubSeq(cleaned, 1, 200) ELSE cleaned

createEpisodeFilename(episode) ==
    timestampPrefix(episode.createdAt) \o "_" \o sanitizedTitle(episode.title)
        \o "_" \o ToString(episode.id) \o ".mp3"

\* A list that takes every episode.
needsDownloadAlways(episode, existing) == TRUE

\* The episode goes on the download list: its file is not there and it has
\* a media location.
needsDownload(episode, existing) ==
    /\ createEpisodeFilename(episode) \notin existing
    /\ episode.streamUrl # Null

\* The stored episodes the download step may find: with and without a media
\* location, with a title that needs sanitizing, one without a title.
DownloadEpisodes(id) ==
    { Spread(title, [id |-> id, createdAt |-> "2025-01-01T10:00:00.000Z",
                     streamUrl |-> streamUrl]) :
          title \in {NoFields, [title |-> "Rich"], [title |-> "Q: A?"]},
          streamUrl \in {Null, "cdn/api/stream"} }

\* The stores: no two episodes of the same identity.
DownloadStores ==
    { << >> }
        \cup { << e >> : e \in UNION { DownloadEpisodes(id) : id \in Ids } }
        \cup { << e1, e2 >> : e1 \in DownloadEpisodes(1), e2 \in DownloadEpisodes(2) }

InitDownload ==
    /\ file \in { dbSet(episodes) : episodes \in DownloadStores }
    /\ db = EmptyDocument
    /\ now = 0
    /\ pc = "Idle"
    /\ clientId = Null
    /\ nextUrl = 0
    /\ allTracks = << >>
    /\ tracks = << >>
    /\ i = 0
    /\ detailedTrack = NullTrack
    /\ mediaRequests = << >>
    /\ processedStreams = << >>
    /\ returned = << >>
    /\ err = Null
    /\ startFile = EmptyDocument
    /\ episodeData = NoEpisode
    /\ upserts = 0
    /\ prev = NoRun
    /\ detailFailed = FALSE
    /\ OthersIdle

\* The download step starts, as downloadEpisodes() of the manager or as the
\* download script: the store is loaded.
StartDownload ==
    /\ dl.at \in {"idle", "done", "failed"}
    /\ \E variant \in {"manager", "script"} :
          dl' = [at |-> "scanning", variant |-> variant,
                 episodes |-> episodesOf(file), queue |-> << >>, pos |-> 0,
                 allOk |-> TRUE, prevOk |-> (dl.at = "done" /\ dl.allOk)]
    /\ requests' = << >>
    /\ UNCHANGED << files, pipelineVars, mediaVars, stepVars, concurrentVars,
                    botVars, callVars >>

\* One iteration of the first loop: does the episode go on the list?
Scan ==
    /\ dl.at = "scanning"
    /\ dl.pos < Len(dl.episodes)
    /\ LET episode == dl.episodes[dl.pos + 1]
       IN  IF "title" \notin DOMAIN episode
           THEN \* episode.title.replace throws
                dl' = [dl EXCEPT !.at = "failed", !.allOk = FALSE]
           ELSE IF needsDownload(episode, DOMAIN files)
                THEN dl' = [dl EXCEPT !.pos = @ + 1, !.queue = Append(@, episode)]
                ELSE dl' = [dl EXCEPT !.pos = @ + 1]
    /\ UNCHANGED << files, requests, pipelineVars, mediaVars, stepVars,
                    concurrentVars, botVars, callVars >>

\* The first loop is over.
BeginDownloads ==
    /\ dl.at = "scanning"
    /\ dl.pos = Len(dl.episodes)
    /\ dl' = [dl EXCEPT !.at = "downloading", !.pos = 0]
    /\ UNCHANGED << files, requests, pipelineVars, mediaVars, stepVars,
                    concurrentVars, botVars, callVars >>

\* One iteration of the second loop: downloadAudio(episode.streamUrl, episode).
Download ==
    /\ dl.at = "downloading"
    /\ dl.pos < Len(dl.queue)
    /\ LET episode == dl.queue[dl.pos + 1]
           filename == createEpisodeFilename(episode)
       IN  IF filename \in DOMAIN files
           THEN \* fs.access succeeds: return filePath
                /\ dl' = [dl EXCEPT !.pos = @ + 1]
                /\ UNCHANGED << files, requests >>
           ELSE /\ requests' = Append(requests, filename)
                /\ \/ \* the request fails: the manager's run is rejected,
                      \* the script logs it and goes on
                      /\ dl' = IF dl.variant = "manager"
                               THEN [dl EXCEPT !.at = "failed", !.allOk = FALSE]
                               ELSE [dl EXCEPT !.pos = @ + 1, !.allOk = FALSE]
                      /\ UNCHANGED files
                   \/ \* the file is created and the stream ends well
                      /\ files' = (filename :> "complete") @@ files
                      /\ dl' = [dl EXCEPT !.pos = @ + 1]
                   \/ \* the file is created and the stream breaks
                      /\ files' = (filename :> "partial") @@ files
                      /\ dl' = [dl EXCEPT !.at = "failed", !.allOk = FALSE]
    /\ UNCHANGED << pipelineVars, mediaVars, stepVars, concurrentVars, botVars,
                    callVars >>

\* The second loop is over.
FinishDownloads ==
    /\ dl.at = "downloading"
    /\ dl.pos = Len(dl.queue)
    /\ dl' = [dl EXCEPT !.at = "done"]
    /\ UNCHANGED << files, requests, pipelineVars, mediaVars, stepVars,
                    concurrentVars, botVars, callVars >>

NextDownload ==
    \/ StartDownload
    \/ Scan
    \/ BeginDownloads
    \/ Download
    \/ FinishDownloads

SpecDownload == InitDownload /\ [][NextDownload]_vars

\* --------------------------------------------- getStreamUrl called directly
\* The rendition lists of the records passed to getStreamUrl.
Renditions ==
    { << >>,
      << [protocol |-> "hls", url |-> "api/hls"],
         [protocol |-> "progressive", url |-> "api/progressive"] >>,
      << [protocol |-> "progressive", url |-> "api/progressive"],
         [protocol |-> "progressive", url |-> "api/progressive2"] >> }

\* The records passed: with or without a direct reference, renditions, the
\* downloadable mark and a download reference.
MediaTracks ==
    { [Track(1, TRUE, "2025-01-01T10:00:00.000Z", BareContent)
           EXCEPT !.stream_url = s, !.transcodings = r,
                  !.downloadable = d, !.download_url = u] :
          s \in {Null, "api/stream"}, r \in Renditions,
          d \in BOOLEAN, u \in {Null, "api/download"} }

\* await getStreamUrl(track), the network answering as net says.
ResolveMedia ==
    /\ \E track \in MediaTracks :
          \E net \in Nets(track) :
              LET media == getStreamUrl(track, net, clientId)
              IN  resolved' = [track |-> track, net |-> net,
                               value |-> media.value,
                               requests |-> media.requests]
    /\ UNCHANGED << pipelineVars, stepVars, concurrentVars, downloadVars,
                    botVars, callVars >>

NextMedia == ResolveMedia

SpecMedia == Init /\ [][NextMedia]_vars

\* ------------------------------------------------------------ the Discord bot
\* this.connection is set.
holdsConnection(b) == b.connection # "none"

\* playRandomEpisode's condition, this.connection && this.localFiles.length > 0
mayAutoPlayAlways(b, n) == n > 0
mayAutoPlay(b, n) == holdsConnection(b) /\ n > 0

\* playLocalFile(fileData, voiceChannel): joins the channel when one is given
\* (0 for none) and this.connection is not set, and registers the Disconnected
\* handler on the connection it made; plays the file; sets this.currentEpisode.
playLocalFile(b, f, channel) ==
    LET join == channel # 0 /\ ~holdsConnection(b)
    IN  [player |-> "Playing",
         connection |-> IF join THEN "joined" ELSE b.connection,
         channelId |-> IF join THEN channel ELSE b.channelId,
         up |-> join \/ b.up,
         currentEpisode |-> f]

\* The orders readdirSync may list n files in, the files told apart by the
\* rank of their creation timestamps.
Listings(n) ==
    { l \in [1..n -> 1..n] : \A a, b \in 1..n : l[a] = l[b] => a = b }

\* const latestFile = this.localFiles[this.localFiles.length - 1]
latestFile(n) == n

\* The bot is made and started: the constructor's loadData reads the downloads
\* directory; once the client is ready autoStartPlayback plays latestFile in
\* the configured channel, if there is a file and a configured channel.
StartBot ==
    /\ lastEvent = "off"
    /\ \E n \in 0..MaxFiles, configured \in 0..MaxChannels :
          /\ localFiles' = n
          /\ \E listing \in Listings(n) : created' = listing
          /\ bot' = IF n > 0 /\ configured # 0
                    THEN playLocalFile(bot, latestFile(n), configured)
                    ELSE bot
    /\ lastEvent' = "ready"
    /\ autoStarted' = 0
    /\ UNCHANGED << pipelineVars, mediaVars, stepVars, concurrentVars,
                    downloadVars, callVars >>

\* The commands that play a file.
PlayCommands == {"play", "random", "episode"}

\* A play command that finds a file and a target channel: play takes
\* latestFile, random any file, episode the file of the episode named.
PlayCommand(command) ==
    /\ lastEvent # "off"
    /\ localFiles > 0
    /\ \E f \in 1..localFiles, channel \in 1..MaxChannels :
          /\ command = "play" => f = latestFile(localFiles)
          /\ bot' = playLocalFile(bot, f, channel)
    /\ lastEvent' = command
    /\ autoStarted' = 0
    /\ UNCHANGED << localFiles, created, pipelineVars, mediaVars, stepVars,
                    concurrentVars, downloadVars, callVars >>

\* stopPlayback past its idle check: player.stop(), this.currentEpisode =
\* null, the connection destroyed and set to null.
stopPlaybackPlayerOnly(b) ==
    [b EXCEPT !.player = "Stopping", !.currentEpisode = 0]
stopPlayback(b) ==
    [player |-> "Stopping", connection |-> "none", channelId |-> 0,
     up |-> FALSE, currentEpisode |-> 0]

\* A stop command: refused when the player is idle, else stopPlayback.
StopCommand ==
    /\ lastEvent # "off"
    /\ bot.player # "Idle"
    /\ bot' = stopPlayback(bot)
    /\ lastEvent' = "stop"
    /\ autoStarted' = 0
    /\ UNCHANGED << localFiles, created, pipelineVars, mediaVars, stepVars,
                    concurrentVars, downloadVars, callVars >>

\* handleChapterSelect and seekToChapter: the connection destroyed and set to
\* null, player.stop(); an invalid timestamp ends it there; else a channel, if
\* given, is joined with no Disconnected handler, and the episode plays again
\* from the chapter's start.
SeekCommand ==
    /\ lastEvent # "off"
    /\ bot.currentEpisode # 0
    /\ \E valid \in BOOLEAN, channel \in 0..MaxChannels :
          bot' = IF valid
                 THEN [player |-> "Playing",
                       connection |-> IF channel # 0 THEN "seekJoined"
                                      ELSE "none",
                       channelId |-> channel,
                       up |-> channel # 0,
                       currentEpisode |-> bot.currentEpisode]
                 ELSE [bot EXCEPT !.connection = "none", !.channelId = 0,
                                  !.up = FALSE,
                                  !.player = IF bot.player = "Idle" THEN "Idle"
                                             ELSE "Stopping"]
    /\ lastEvent' = "seek"
    /\ autoStarted' = 0
    /\ UNCHANGED << localFiles, created, pipelineVars, mediaVars, stepVars,
                    concurrentVars, downloadVars, callVars >>

\* The voice connection is lost. The handler playLocalFile registered sets
\* this.connection to null; a connection seekToChapter made has no handler,
\* and this.connection stays set.
Disconnected ==
    /\ lastEvent # "off"
    /\ bot.up
    /\ bot' = IF bot.connection = "joined"
              THEN [bot EXCEPT !.connection = "none", !.channelId = 0,
                               !.up = FALSE]
              ELSE [bot EXCEPT !.up = FALSE]
    /\ lastEvent' = "disconnected"
    /\ UNCHANGED << autoStarted, localFiles, created, pipelineVars, mediaVars,
                    stepVars, concurrentVars, downloadVars, callVars >>

\* The player becomes idle, the episode having finished or a stop having
\* taken effect, and the Idle handler calls playRandomEpisode.
PlayerIdle ==
    /\ lastEvent # "off"
    /\ bot.player # "Idle"
    /\ IF mayAutoPlay(bot, localFiles)
       THEN /\ \E randomFile \in 1..localFiles :
                  bot' = playLocalFile(bot, randomFile, bot.channelId)
            /\ autoStarted' = IF autoStarted < MaxChain THEN autoStarted + 1
                              ELSE MaxChain
       ELSE /\ bot' = [bot EXCEPT !.player = "Idle"]
            /\ autoStarted' = autoStarted
    /\ lastEvent' = "idle"
    /\ UNCHANGED << localFiles, created, pipelineVars, mediaVars, stepVars,
                    concurrentVars, downloadVars, callVars >>

NextBot ==
    \/ StartBot
    \/ \E command \in PlayCommands : PlayCommand(command)
    \/ StopCommand
    \/ SeekCommand
    \/ Disconnected
    \/ PlayerIdle

SpecBot == Init /\ [][NextBot]_vars

\* ----------------------------------------- the chapter menu's interactions
\* findEpisodeData(filename) finds the episode and it has chapters: here the
\* files with an odd number.
hasChapters(f) == f % 2 = 1

\* !this.currentEpisode, or !episodeData || !episodeData.chapters ||
\* episodeData.chapters.length === 0: the two tests that answer with an
\* error text.
noChapters(b) == b.currentEpisode = 0 \/ ~hasChapters(b.currentEpisode)

\* interaction.reply: the first response of an interaction; on an
\* interaction that was replied to or deferred it throws.
reply(s) ==
    IF s.responded = "no"
    THEN [at |-> "done", responded |-> "replied", did |-> Append(s.did, "reply")]
    ELSE [at |-> "threw", responded |-> s.responded,
          did |-> Append(s.did, "reply")]

\* A 'show more' option of the chapter menu is selected: handleChapterSelect
\* up to await interaction.deferUpdate().
SelectShowMore ==
    /\ lastEvent # "off"
    /\ sel.at \in {"idle", "done", "threw"}
    /\ sel' = IF noChapters(bot) THEN reply(NoInteraction)
              ELSE [at |-> "deferred", responded |-> "deferred",
                    did |-> << "deferUpdate" >>]
    /\ UNCHANGED << fetch, cred, link, call, pipelineVars, mediaVars, stepVars,
                    concurrentVars, downloadVars, botVars >>

\* The chapters command: handleCommand calls showChapters(interaction) on an
\* interaction nothing has answered.
ChaptersCommand ==
    /\ lastEvent # "off"
    /\ sel.at \in {"idle", "done", "threw"}
    /\ sel' = [NoInteraction EXCEPT !.at = "called"]
    /\ UNCHANGED << fetch, cred, link, call, pipelineVars, mediaVars, stepVars,
                    concurrentVars, downloadVars, botVars >>

\* showChapters up to await import("discord.js"): the two tests, on what
\* this.currentEpisode is now.
ShowChapters ==
    /\ sel.at \in {"deferred", "called"}
    /\ sel' = IF noChapters(bot) THEN reply(sel)
              ELSE [sel EXCEPT !.at = "importing"]
    /\ UNCHANGED << fetch, cred, link, call, pipelineVars, mediaVars, stepVars,
                    concurrentVars, downloadVars, botVars >>

\* showChapters after the import: followUp on an interaction that was
\* replied to or deferred, reply on any other.
SendMenu ==
    /\ sel.at = "importing"
    /\ sel' = IF sel.responded # "no"
              THEN [sel EXCEPT !.at = "done", !.did = Append(@, "followUp")]
              ELSE reply(sel)
    /\ UNCHANGED << fetch, cred, link, call, pipelineVars, mediaVars, stepVars,
                    concurrentVars, downloadVars, botVars >>

NextInteraction ==
    \/ NextBot
    \/ SelectShowMore
    \/ ChaptersCommand
    \/ ShowChapters
    \/ SendMenu

SpecInteraction == Init /\ [][NextInteraction]_vars

\* ------------------------------------------- formatDuration called directly
\* formatDuration of a duration given as a list: of one number, or empty
\* for a track without duration, for which !milliseconds holds as for 0.
formatDurationGiven(given) ==
    IF Len(given) = 0 THEN "Unknown" ELSE formatDuration(given[1])

\* The durations: none, and up to MaxSeconds seconds with 0, 1 and 999
\* milliseconds on top, and ten and a hundred hours.
Durations ==
    { << >>, << 36000000 >>, << 360000999 >> }
        \cup { << 1000 * s + r >> : s \in 0..MaxSeconds, r \in {0, 1, 999} }

FormatDuration ==
    /\ call = NotCalled
    /\ \E given \in Durations :
          call' = [fn |-> "formatDuration", input |-> given,
                   output |-> formatDurationGiven(given)]
    /\ UNCHANGED << fetch, cred, link, sel, pipelineVars, mediaVars, stepVars,
                    concurrentVars, downloadVars, botVars >>

NextDuration == FormatDuration

SpecDuration == Init /\ [][NextDuration]_vars

\* --------------------------------------- from a file name to its episode
\* Where the run of characters of the class that ends at k starts.
RECURSIVE runStart(_, _, _)
runStart(s, k, class) ==
    IF k >= 1 /\ at(s, k) \in class THEN runStart(s, k - 1, class) ELSE k + 1

\* s.endsWith(suffix).
endsWith(s, suffix) ==
    Len(s) >= Len(suffix) /\ slice(s, Len(s) - Len(suffix) + 1) = suffix

\* s.replace(sub, ""): the first occurrence of sub removed.
removeFirst(s, sub) ==
    LET found == { k \in 1..(Len(s) - Len(sub) + 1) :
                      SubSeq(s, k, k + Len(sub) - 1) = sub }
        k == CHOOSE k \in found : \A j \in found : k <= j
    IN  IF found = {} THEN s
        ELSE SubSeq(s, 1, k - 1) \o slice(s, k + Len(sub))

\* Number.parseInt(s, 10): the number the leading digits write, -1 for NaN.
parseInt(s) ==
    LET e == runEnd(s, 1, Digit)
    IN  IF e = 1 THEN -1 ELSE number(SubSeq(s, 1, e - 1))

\* filename.match(/_(\d+)\.mp3$/)?.[1], with the digits behind the first
\* underscore for those before .mp3.
capturedFirst(filename) ==
    LET u == indexOf(filename, "_")
    IN  IF u = 0 THEN Null
        ELSE SubSeq(filename, u + 1, runEnd(filename, u + 1, Digit) - 1)
\* filename.match(/_(\d+)\.mp3$/)?.[1]: the digits between an underscore
\* and .mp3 at the end of the name, null without a match.
captured(filename) ==
    LET last == Len(filename) - 4
        first == runStart(filename, last, Digit)
    IN  IF /\ endsWith(filename, ".mp3")
           /\ first <= last
           /\ first > 1
           /\ at(filename, first - 1) = "_"
        THEN SubSeq(filename, first, last)
        ELSE Null

\* findEpisodeData(filename) with this.episodes = episodes: the first
\* episode whose id is written as the digits captured, as a list of one;
\* the empty list for undefined and null.
findEpisodeData(filename, episodes) ==
    LET id == captured(filename)
        found == SelectSeq(episodes, LAMBDA ep : ToString(ep.id) = id)
    IN  IF id # Null /\ id # "" /\ Len(found) > 0 THEN << found[1] >>
        ELSE << >>

\* getEpisodeTitle(filename) with this.episodes = episodes.
getEpisodeTitle(filename, episodes) ==
    LET underscores == { k \in 1..Len(filename) : at(filename, k) = "_" }
        lastU == CHOOSE k \in underscores : \A j \in underscores : j <= k
        firstU == indexOf(filename, "_")
        secondU == firstU + indexOf(slice(filename, firstU + 1), "_")
        lastPart == slice(filename, lastU + 1)
        episodeId == parseInt(removeFirst(lastPart, ".mp3"))
        found == SelectSeq(episodes, LAMBDA ep : ep.id = episodeId)
    IN  IF underscores # {} /\ Len(found) > 0 THEN found[1].title
        ELSE IF underscores # {} /\ secondU # lastU /\ secondU # firstU
        THEN removeFirst(SubSeq(filename, secondU + 1, lastU - 1), ".mp3")
        ELSE IF underscores # {} /\ secondU # firstU
        THEN ""
        ELSE removeFirst(filename, ".mp3")

\* The stored episodes the file names are derived from: ids of one, two and
\* three digits, titles with characters a file name cannot have, with
\* underscores, digits and .mp3 in them, an empty title; with and without
\* createdAt.
FileEpisodes ==
    { [id |-> id, title |-> title, createdAt |-> createdAt] :
          id \in {0, 12, 212},
          title \in {"Rich", "Q: A?", "Part_2", "Top 10_12", "7.mp3", ""},
          createdAt \in {"2025-01-01T10:00:00.000Z", Null} }

\* The stores: no two episodes of the same identity.
FileStores ==
    { << e >> : e \in FileEpisodes }
        \cup { pair \in { << e1, e2 >> : e1 \in FileEpisodes,
                                           e2 \in FileEpisodes } :
                   pair[1].id # pair[2].id }

\* The download step names the file of a stored episode, and the bot, which
\* has loaded the store, looks the file up.
DeriveFilename ==
    /\ call = NotCalled
    /\ \E episodes \in FileStores :
          \E k \in DOMAIN episodes :
             LET filename == createEpisodeFilename(episodes[k])
             IN  call' = [fn |-> "createEpisodeFilename",
                          input |-> [episodes |-> episodes, k |-> k],
                          output |->
                            [filename |-> filename,
                             found |-> findEpisodeData(filename, episodes),
                             title |-> getEpisodeTitle(filename, episodes)]]
    /\ UNCHANGED << fetch, cred, link, sel, pipelineVars, mediaVars, stepVars,
                    concurrentVars, downloadVars, botVars >>

NextFilename == DeriveFilename

SpecFilename == Init /\ [][NextFilename]_vars

\* ------------------------------------------------- the chapter menu's pages
\* const maxOptions = 24.
maxOptions == 24

\* Math.min(startIdx + maxOptions, totalChapters), without the limit.
endIdxAll(startIdx, totalChapters) == totalChapters
\* Math.min(startIdx + maxOptions, totalChapters).
endIdx(startIdx, totalChapters) ==
    IF startIdx + maxOptions < totalChapters THEN startIdx + maxOptions
    ELSE totalChapters

\* The options of the menu showChapters(interaction, startIdx) builds for an
\* episode of totalChapters chapters: for each chapter of the slice the
\* chapter whose title and start it shows (by its index in the list) and
\* the value String(startIdx + idx), then the 'show more' option when
\* chapters remain.
options(startIdx, totalChapters) ==
    LET end == endIdx(startIdx, totalChapters)
    IN  [idx \in 1..(end - startIdx) |->
            [chapter |-> startIdx + idx - 1,
             value |-> ToString(startIdx + idx - 1)]]
          \o (IF end < totalChapters
              THEN << [chapter |-> -1, value |-> "show_more_" \o ToString(end)] >>
              ELSE << >>)

\* selectedValue.startsWith("show_more_").
isShowMore(selectedValue) == startsWith(selectedValue, "show_more_")

\* Number(selectedValue.replace("show_more_", "")).
nextStart(selectedValue) == number(slice(selectedValue, 11))

\* The chapters the options of a menu show, in their order.
shownBy(menu) ==
    LET shown == SelectSeq(menu, LAMBDA option : option.chapter # -1)
    IN  [k \in DOMAIN shown |-> shown[k].chapter]

\* The chapters command: showChapters(interaction) for the current episode.
OpenMenu ==
    /\ call = NotCalled
    /\ \E totalChapters \in 1..MaxChapters :
          call' = [fn |-> "showChapters",
                   input |-> [totalChapters |-> totalChapters, startIdx |-> 0],
                   output |-> [options |-> options(0, totalChapters),
                               shown |-> shownBy(options(0, totalChapters)),
                               selected |-> 0, sought |-> -1]]
    /\ UNCHANGED << fetch, cred, link, sel, pipelineVars, mediaVars, stepVars,
                    concurrentVars, downloadVars, botVars >>

\* handleChapterSelect with a selected value: the next menu for a 'show
\* more' option, and for any other the chapter episodeData.chapters[idx] of
\* idx = Number.parseInt(selectedValue, 10), which seekToChapter is called
\* with when there is one.
SelectOption ==
    /\ call.fn = "showChapters"
    /\ call.output.selected = 0
    /\ \E k \in DOMAIN call.output.options :
          LET selectedValue == call.output.options[k].value
              totalChapters == call.input.totalChapters
          IN  IF isShowMore(selectedValue)
              THEN call' =
                     [fn |-> "showChapters",
                      input |-> [totalChapters |-> totalChapters,
                                 startIdx |-> nextStart(selectedValue)],
                      output |->
                        [options |-> options(nextStart(selectedValue),
                                             totalChapters),
                         shown |-> call.output.shown
                                     \o shownBy(options(nextStart(selectedValue),
                                                        totalChapters)),
                         selected |-> 0, sought |-> -1]]
              ELSE call' =
                     [call EXCEPT
                        !.output.selected = k,
                        !.output.sought =
                            IF number(selectedValue) < totalChapters
                            THEN number(selectedValue) ELSE -1]
    /\ UNCHANGED << fetch, cred, link, sel, pipelineVars, mediaVars, stepVars,
                    concurrentVars, downloadVars, botVars >>

NextMenu ==
    \/ OpenMenu
    \/ SelectOption

SpecMenu == Init /\ [][NextMenu]_vars

\* ------------------------------------------- fetchAllTracks called directly
\* What a page's data.collection can be: missing, or a list of records.
PageCollections == {undefined} \cup Collections(1)

\* The provider's pages, page u at the URL u: each with its collection and its
\* next_href, 0 when the response carries none, else the URL of a later page.
Providers ==
    UNION { { pages \in [1..n -> [collection : PageCollections,
                                  next_href : 0..n]] :
                \A u \in 1..n : pages[u].next_href \in {0} \cup (u + 1)..n } :
            n \in 1..MaxPages }

\* The URLs reached from url by following next_href.
RECURSIVE Chain(_, _)
Chain(pages, url) ==
    IF url = 0 THEN << >>
    ELSE << url >> \o Chain(pages, pages[url].next_href)

\* The collections of the pages at urls, one after the other.
RECURSIVE Concatenation(_, _)
Concatenation(pages, urls) ==
    IF urls = << >> THEN << >>
    ELSE (IF pages[Head(urls)].collection = undefined THEN << >>
          ELSE pages[Head(urls)].collection)
             \o Concatenation(pages, Tail(urls))

\* allTracks.concat(data.collection || [])
concatReversed(all, data) ==
    (IF data.collection = undefined THEN << >> ELSE data.collection) \o all
concat(all, data) ==
    all \o (IF data.collection = undefined THEN << >> ELSE data.collection)

\* if (nextUrl) await new Promise((resolve) => setTimeout(resolve, 1000))
delaysAlways(next) == TRUE
delays(next) == next # 0

\* fetchAllTracks(userId) is called: allTracks empty, nextUrl the first page.
CallFetch ==
    /\ fetch.at \in {"idle", "returned", "rejected"}
    /\ \E pages \in Providers :
          fetch' = [at |-> "loop", pages |-> pages, nextUrl |-> 1,
                    allTracks |-> << >>, did |-> << >>]
    /\ UNCHANGED << cred, link, call, sel, pipelineVars, mediaVars, stepVars,
                    concurrentVars, downloadVars, botVars >>

\* while (nextUrl): the page at nextUrl is requested and awaited.
RequestPage ==
    /\ fetch.at = "loop"
    /\ fetch.nextUrl # 0
    /\ fetch' = [fetch EXCEPT !.at = "get",
                              !.did = Append(@, << "get", fetch.nextUrl >>)]
    /\ UNCHANGED << cred, link, call, sel, pipelineVars, mediaVars, stepVars,
                    concurrentVars, downloadVars, botVars >>

\* The request settles. Rejected, it ends fetchAllTracks; fulfilled, the
\* collection is added, nextUrl becomes data.next_href, and if there is one
\* the one-second timer is set and awaited.
PageSettles ==
    /\ fetch.at = "get"
    /\ \/ fetch' = [fetch EXCEPT !.at = "rejected"]
       \/ LET data == fetch.pages[fetch.nextUrl]
          IN  fetch' = [fetch EXCEPT
                           !.allTracks = concat(@, data),
                           !.nextUrl = data.next_href,
                           !.at = IF delays(data.next_href) THEN "timer"
                                  ELSE "loop",
                           !.did = IF delays(data.next_href)
                                   THEN Append(@, << "setTimeout", 1000 >>)
                                   ELSE @]
    /\ UNCHANGED << cred, link, call, sel, pipelineVars, mediaVars, stepVars,
                    concurrentVars, downloadVars, botVars >>

\* The timer fires and the loop goes on.
TimerFires ==
    /\ fetch.at = "timer"
    /\ fetch' = [fetch EXCEPT !.at = "loop",
                              !.did = Append(@, << "timeout", 1000 >>)]
    /\ UNCHANGED << cred, link, call, sel, pipelineVars, mediaVars, stepVars,
                    concurrentVars, downloadVars, botVars >>

\* The loop ends: return allTracks.
ReturnTracks ==
    /\ fetch.at = "loop"
    /\ fetch.nextUrl = 0
    /\ fetch' = [fetch EXCEPT !.at = "returned"]
    /\ UNCHANGED << cred, link, call, sel, pipelineVars, mediaVars, stepVars,
                    concurrentVars, downloadVars, botVars >>

NextFetch ==
    \/ CallFetch
    \/ RequestPage
    \/ PageSettles
    \/ TimerFires
    \/ ReturnTracks

SpecFetch == Init /\ [][NextFetch]_vars

\* ------------------------------------------ extractClientId called directly
\* The token patterns, by their place in clientIdPatterns.
clientIdPatterns == 1..6

\* What the request for a script can give: a failure, or a body, told by the
\* patterns that match in it.
ScriptAnswers ==
    { [ok |-> FALSE, matches |-> {}] }
        \cup { [ok |-> TRUE, matches |-> m] :
                   m \in { m \in SUBSET clientIdPatterns :
                               Cardinality(m) <= MaxMatches } }

\* What pattern p captures in the script at url.
Captured(url, p) == "id" \o ToString(url) \o "p" \o ToString(p)

\* The script URLs the four script patterns collect from the page, one
\* pattern after the other, a URL once for every pattern that finds it.
FoundLists == UNION { [1..n -> 1..MaxScripts] : n \in 0..(MaxScripts + 1) }

\* [...new Set(scriptUrls)]: each URL once, at its first place.
RECURSIVE unique(_)
unique(list) ==
    IF list = << >> THEN << >>
    ELSE LET front == unique(SubSeq(list, 1, Len(list) - 1))
             last == list[Len(list)]
         IN  IF \E j \in DOMAIN front : front[j] = last THEN front
             ELSE Append(front, last)

\* for (const pattern of clientIdPatterns) ... if (clientIdMatch): the first
\* pattern of the list that matches, 0 when none does.
firstMatchLowest(matches) ==
    IF matches = {} THEN 0
    ELSE CHOOSE p \in matches : \A q \in matches : p >= q
firstMatch(matches) ==
    IF matches = {} THEN 0
    ELSE CHOOSE p \in matches : \A q \in matches : p <= q

\* The fallback values of the stand-alone script; the manager has none.
fallbackClientIds(variant) ==
    IF variant = "script"
    THEN << "iZIs9mchVcX5lhVkN0b1WACJxt3kz3eh",
            "c9AadRMEwQKfnCLDJ8GBqvQvjQTdV0dP" >>
    ELSE << >>

\* One turn of the fallback loop: the value when the resolve call did not
\* throw, null to go on.
probed(ok, fallbackId) == IF ok THEN fallbackId ELSE Null

\* extractClientId() is called and the profile page is requested. Rejected,
\* the request ends the function; fulfilled, the script URLs are collected
\* and made unique.
CallExtract ==
    /\ cred.at \in {"idle", "returned", "rejected"}
    /\ \E variant \in {"manager", "script"} :
          \/ cred' = [NoExtract EXCEPT !.at = "rejected", !.variant = variant,
                                       !.did = << [op |-> "page", url |-> 0,
                                                   id |-> Null, ok |-> FALSE,
                                                   matches |-> {}] >>]
          \/ \E found \in FoundLists :
                cred' = [NoExtract EXCEPT !.at = "scan", !.variant = variant,
                                         !.found = found,
                                         !.scriptUrls = unique(found),
                                         !.k = 1,
                                         !.did = << [op |-> "page", url |-> 0,
                                                     id |-> Null, ok |-> TRUE,
                                                     matches |-> {}] >>]
    /\ UNCHANGED << fetch, link, call, sel, pipelineVars, mediaVars, stepVars,
                    concurrentVars, downloadVars, botVars >>

\* One turn of the scripts loop: scriptUrls[k] is requested; a failure is
\* caught and the loop goes on; in a body the first matching pattern's
\* capture becomes clientId and is returned.
FetchScript ==
    /\ cred.at = "scan"
    /\ cred.k <= Len(cred.scriptUrls)
    /\ \E answer \in ScriptAnswers :
          LET url == cred.scriptUrls[cred.k]
              p == firstMatch(answer.matches)
              done == [op |-> "script", url |-> url, id |-> Null,
                       ok |-> answer.ok, matches |-> answer.matches]
          IN  IF answer.ok /\ p # 0
              THEN cred' = [cred EXCEPT !.at = "returned",
                                        !.clientId = Captured(url, p),
                                        !.did = Append(@, done)]
              ELSE cred' = [cred EXCEPT !.k = @ + 1, !.did = Append(@, done)]
    /\ UNCHANGED << fetch, link, call, sel, pipelineVars, mediaVars, stepVars,
                    concurrentVars, downloadVars, botVars >>

\* The scripts loop is over without a token: the fallback loop starts; with
\* no fallback value the function throws.
ScanExhausted ==
    /\ cred.at = "scan"
    /\ cred.k > Len(cred.scriptUrls)
    /\ cred' = IF fallbackClientIds(cred.variant) = << >>
               THEN [cred EXCEPT !.at = "rejected"]
               ELSE [cred EXCEPT !.at = "fallback", !.k = 1]
    /\ UNCHANGED << fetch, link, call, sel, pipelineVars, mediaVars, stepVars,
                    concurrentVars, downloadVars, botVars >>

\* One turn of the fallback loop: the resolve endpoint is called with the
\* value; if the call does not throw the value becomes clientId and is
\* returned.
ProbeFallback ==
    /\ cred.at = "fallback"
    /\ cred.k <= Len(fallbackClientIds(cred.variant))
    /\ \E ok \in BOOLEAN :
          LET fallbackId == fallbackClientIds(cred.variant)[cred.k]
              done == [op |-> "probe", url |-> 0, id |-> fallbackId,
                       ok |-> ok, matches |-> {}]
          IN  IF probed(ok, fallbackId) # Null
              THEN cred' = [cred EXCEPT !.at = "returned",
                                        !.clientId = probed(ok, fallbackId),
                                        !.did = Append(@, done)]
              ELSE cred' = [cred EXCEPT !.k = @ + 1, !.did = Append(@, done)]
    /\ UNCHANGED << fetch, link, call, sel, pipelineVars, mediaVars, stepVars,
                    concurrentVars, downloadVars, botVars >>

\* throw new Error("Could not extract or find working client ID")
FallbackExhausted ==
    /\ cred.at = "fallback"
    /\ cred.k > Len(fallbackClientIds(cred.variant))
    /\ cred' = [cred EXCEPT !.at = "rejected"]
    /\ UNCHANGED << fetch, link, call, sel, pipelineVars, mediaVars, stepVars,
                    concurrentVars, downloadVars, botVars >>

NextCredential ==
    \/ CallExtract
    \/ FetchScript
    \/ ScanExhausted
    \/ ProbeFallback
    \/ FallbackExhausted

SpecCredential == Init /\ [][NextCredential]_vars

\* -------------------------------------- extractShowNotesUrl called directly
\* The pieces a description is made of here: plain text; a bare URL with a
\* scheme, one without, one too short and one with a port no URL has; and
\* each label followed by a URL, by a domain-shaped token, by a short word,
\* or by a URL whose host has no dot.
LinkTokens ==
    { TextToken("no links here"), UrlToken("https://bare.example/page"),
      UrlToken("www.site.example/notes."), UrlToken("a.io"),
      UrlToken("http://a.bc:99999") }
        \cup { LabeledToken(labels[l], ref) :
                   l \in DOMAIN labels,
                   ref \in {"https://labeled.example/notes",
                            "www.site.example/notes.", "op", "http://a"} }

\* The descriptions extractShowNotesUrl is called with: texts of up to
\* MaxTokens pieces, no description, and a number.
Descriptions ==
    UNION { [1..n -> LinkTokens] : n \in 0..MaxTokens }
        \cup {NoDescription, NumberDescription}

\* extractShowNotesUrl(description), of either copy; the function keeps no
\* state, so one call is looked at.
ExtractLink ==
    /\ link = NoLink
    /\ \E variant \in {"manager", "script"}, description \in Descriptions :
          link' = [variant |-> variant, description |-> description,
                   value |-> extractShowNotesUrlOf(variant, description)]
    /\ UNCHANGED << fetch, cred, call, sel, pipelineVars, mediaVars, stepVars,
                    concurrentVars, downloadVars, botVars >>

NextLink == ExtractLink

SpecLink == Init /\ [][NextLink]_vars

\* ------------------------------- processTrackData assembling one episode
\* The lines a description is made of here: chapter lines, one with a time
\* stamp out of range and a padded title, one with a second time stamp in
\* its title, one without a title; a line whose time stamp has too few
\* digits; plain text; a URL.
ChapterTokens ==
    { ChapterLine("00:01:30", "Intro"),
      ChapterLine("99:99:99", "  Out of range "),
      ChapterLine("00:02:00", "a (00:03:00) b"),
      ChapterLine("00:05:00", ""),
      TextToken("(1:02:03) short"),
      TextToken("no links here"),
      UrlToken("https://example.com/notes") }

ChapterDescriptions ==
    UNION { [1..n -> ChapterTokens] : n \in 0..MaxTokens }
        \cup {NoDescription, NumberDescription}

\* The body of the loop of processTrackData for a streamable item with the
\* description, up to the assembled episode.
AssembleEpisode ==
    /\ call = NotCalled
    /\ \E description \in ChapterDescriptions :
          call' = [fn |-> "processTrackData", input |-> description,
                   output |-> processedTrack(
                       [Track(1, TRUE, "2025-01-01T10:00:00.000Z", RichContent)
                           EXCEPT !.description = description],
                       "api/stream")]
    /\ UNCHANGED << fetch, cred, link, sel, pipelineVars, mediaVars, stepVars,
                    concurrentVars, downloadVars, botVars >>

NextChapters == AssembleEpisode

SpecChapters == Init /\ [][NextChapters]_vars

\* ================================================================ claims
\* The stored collection, as a reader of the store file gets it.
Stored == episodesOf(file)
StoredNext == episodesOf(file')

IdsOf(list) == { list[k].id : k \in DOMAIN list }

\* A step in which an upsertEpisode call completed.
Upserted == upserts' = upserts + 1

\* C1: after any sequence of upserts of a run, items enumerated twice
\* included, no two entries of the stored collection (in the file and in the
\* run's memory) have the same identity.
C1_UniqueIdentity ==
    /\ \A j, k \in DOMAIN Stored : j # k => Stored[j].id # Stored[k].id
    /\ \A j, k \in DOMAIN episodesOf(db) :
           j # k => episodesOf(db)[j].id # episodesOf(db)[k].id

\* C1's case: one run has upserted the same identity twice.
C1_Witness ==
    /\ pc = "ProcessingItems"
    /\ Len(processedStreams) = 2
    /\ processedStreams[1].id = processedStreams[2].id
    /\ Len(Stored) = 1

\* C2: every stored episode stays stored under its identity with the
\* created_date it has, through every step of this run and of later runs.
C2_CreatedDateKept ==
    [][\A k \in DOMAIN Stored :
           \E j \in DOMAIN StoredNext :
               /\ StoredNext[j].id = Stored[k].id
               /\ StoredNext[j].created_date = Stored[k].created_date]_vars

\* C2's case: an episode stored by an earlier run has been upserted again by
\* the running run, at a later time.
C2_Witness ==
    /\ upserts = 1
    /\ Len(Stored) = 1
    /\ Len(episodesOf(startFile)) = 1
    /\ Stored[1].created_date = 1
    /\ Stored[1].updated_date = 2

C4_InsertOrUpdateInPlace ==
    [][Upserted =>
          LET id == episodeData'.id
              n == Len(Stored)
          IN  IF id \notin IdsOf(Stored)
              THEN /\ Len(StoredNext) = n + 1
                   /\ StoredNext[n + 1].id = id
                   /\ StoredNext[n + 1].created_date \in now..now'
                   /\ StoredNext[n + 1].updated_date \in now..now'
                   /\ \A k \in DOMAIN Stored : StoredNext[k] = Stored[k]
              ELSE /\ Len(StoredNext) = n
                   /\ \A k \in DOMAIN Stored :
                          IF Stored[k].id = id
                          THEN /\ StoredNext[k].id = id
                               /\ StoredNext[k].updated_date \in now..now'
                          ELSE StoredNext[k] = Stored[k]]_vars

\* C4's case: of two stored episodes the first was upserted again after the
\* second was appended, and is still the first.
C4_Witness ==
    /\ Len(Stored) = 2
    /\ Stored[1].updated_date > Stored[2].created_date
    /\ Stored[1].created_date < Stored[2].created_date
    /\ episodeData.id = Stored[1].id

\* C5: an upsert of a record with a subset of the fields onto a stored
\* identity overwrites the fields the record has (an undefined value removes
\* the field from the store file) and updated_date, and leaves every other
\* field of the stored record as it was.
C5_PartialMerge ==
    [][Upserted =>
          \A k \in DOMAIN Stored :
              Stored[k].id = episodeData'.id =>
                  LET old == Stored[k]
                      new == StoredNext[k]
                      given == DOMAIN episodeData'
                  IN  /\ \A key \in given :
                             IF key = "chapters" /\ episodeData'[key] = undefined
                             THEN key \notin DOMAIN new
                             ELSE /\ key \in DOMAIN new
                                  /\ new[key] = episodeData'[key]
                      /\ \A key \in (DOMAIN old \cup DOMAIN new)
                                        \ (given \cup {"updated_date"}) :
                             /\ key \in DOMAIN old
                             /\ key \in DOMAIN new
                             /\ new[key] = old[key]]_vars

\* C5's case: a record without a title was upserted onto a stored episode
\* that has one; the title is still there beside the record's chapters.
C5_Witness ==
    /\ upserts >= 2
    /\ "title" \notin DOMAIN episodeData
    /\ "chapters" \in DOMAIN episodeData
    /\ episodeData.chapters # undefined
    /\ \E k \in DOMAIN Stored :
           /\ Stored[k].id = episodeData.id
           /\ "title" \in DOMAIN Stored[k]
           /\ Stored[k].chapters = episodeData.chapters
           /\ Stored[k].updated_date > Stored[k].created_date

\* A run has reached Done after a run that reached Done and processed the
\* same episode data in the same order, as it does when the provider's data
\* did not change in between.
RanTwice ==
    /\ pc = "Done"
    /\ prev.done
    /\ UndatedAll(processedStreams) = prev.processed

\* The store the first of the two runs left.
AfterFirstRun == episodesOf(startFile)

\* The second run left every stored episode where and as it was, updated_date
\* aside.
SameButUpdatedDate ==
    /\ Len(Stored) = Len(AfterFirstRun)
    /\ \A k \in DOMAIN Stored :
           /\ DOMAIN Stored[k] = DOMAIN AfterFirstRun[k]
           /\ \A key \in DOMAIN Stored[k] \ {"updated_date"} :
                  Stored[k][key] = AfterFirstRun[k][key]

\* C6 as stated: after the second of two runs on unchanged data the store has
\* the same identities, created_date and field values, and the updated_date
\* of every stored episode is later than after the first run.
C6_EveryUpdatedDateLater ==
    RanTwice =>
        /\ SameButUpdatedDate
        /\ \A k \in DOMAIN Stored :
               Stored[k].updated_date > AfterFirstRun[k].updated_date

\* C6, amended: the same, but updated_date is later for the episodes the runs
\* processed and unchanged for the stored episodes they did not process.
C6_ProcessedUpdatedDateLater ==
    RanTwice =>
        /\ SameButUpdatedDate
        /\ \A k \in DOMAIN Stored :
               IF Stored[k].id \in IdsOf(processedStreams)
               THEN Stored[k].updated_date > AfterFirstRun[k].updated_date
               ELSE Stored[k].updated_date = AfterFirstRun[k].updated_date

\* C6's case: two runs in succession each processed the same episode.
C6_Witness ==
    /\ RanTwice
    /\ Len(processedStreams) = 1
    /\ Len(Stored) = 1

Count(list, e) == Cardinality({ k \in DOMAIN list : list[k] = e })

C8_NonStreamableSkipped ==
    [][(i' = i + 1 /\ ~detailedTrack'.streamable) =>
          /\ mediaRequests' = << >>
          /\ upserts' = upserts
          /\ file' = file
          /\ db' = db
          /\ processedStreams' = processedStreams
          /\ pc' = "ProcessingItems"]_vars

\* C8's case: the detail record of an item is not streamable although it has
\* media references, the summary record being streamable.
C8_Witness ==
    /\ pc = "ProcessingItems"
    /\ i = 1
    /\ ~detailedTrack.streamable
    /\ detailedTrack.stream_url # Null
    /\ tracks[1].streamable
    /\ upserts = 0

FatalStages == {"ResolvingCredential", "ResolvingOwner", "Enumerating"}

\* C9: a failure of credential resolution, of owner resolution or of a page
\* request rejects the run, and the run has upserted nothing: the stored
\* collection is the one the run found.
C9_FatalFailureLeavesStore ==
    err \in FatalStages =>
        /\ pc = "Failed"
        /\ upserts = 0
        /\ processedStreams = << >>
        /\ Stored = episodesOf(startFile)

\* C9's case: the second page request of a run failed, after a first page
\* with an item, on a store that holds an episode.
C9_Witness ==
    /\ pc = "Failed"
    /\ err = "Enumerating"
    /\ Len(allTracks) >= 1
    /\ Len(Stored) >= 1

\* C10 as stated: an exception raised while an item is processed is caught
\* and the item skipped: no run is rejected in ProcessingItems.
C10_ItemExceptionCaught ==
    ~(pc = "Failed" /\ err = "ProcessingItems")

\* C11: an iteration whose detail request failed goes on with the summary
\* record of the enumeration: the run is not rejected and stays in
\* ProcessingItems, and the item is upserted and added to the result exactly
\* when its summary record is streamable.
C11_DetailFailureUsesSummary ==
    [][(i' = i + 1 /\ detailFailed') =>
          LET summary == tracks[i + 1]
          IN  /\ detailedTrack' = summary
              /\ pc' = "ProcessingItems"
              /\ err' = Null
              /\ IF summary.streamable
                 THEN /\ upserts' = upserts + 1
                      /\ Len(processedStreams') = Len(processedStreams) + 1
                      /\ processedStreams'[Len(processedStreams')].id = summary.id
                      /\ processedStreams'[Len(processedStreams')].title = summary.title
                      /\ summary.id \in IdsOf(StoredNext)
                 ELSE /\ processedStreams' = processedStreams
                      /\ file' = file]_vars

\* C11's case: the detail request of the first item failed and the item is
\* stored and in the result.
C11_Witness ==
    /\ pc = "ProcessingItems"
    /\ i = 1
    /\ detailFailed
    /\ Len(processedStreams) = 1
    /\ processedStreams[1].id = tracks[1].id
    /\ tracks[1].id \in IdsOf(Stored)

\* The record lists a rendition of the progressive protocol.
HasProgressive(track) ==
    \E k \in DOMAIN track.transcodings :
        track.transcodings[k].protocol = "progressive"

\* C12: for a record with a direct stream reference whose response carries a
\* URL and with progressive renditions, getStreamUrl returns the URL of the
\* direct reference and its only request is the one to the direct reference.
C12_DirectBeforeRenditions ==
    LET t == resolved.track
    IN  (/\ t.stream_url # Null
         /\ HasProgressive(t)
         /\ resolved.net[t.stream_url] = "url") =>
            /\ resolved.value = ResolvedUrl(t.stream_url)
            /\ resolved.requests = << t.stream_url >>

\* C12's case: the direct reference and a progressive rendition would both
\* answer with a URL.
C12_Witness ==
    /\ resolved.track.stream_url = "api/stream"
    /\ resolved.net["api/stream"] = "url"
    /\ "api/progressive" \in DOMAIN resolved.net
    /\ resolved.net["api/progressive"] = "url"
    /\ resolved.value = ResolvedUrl("api/stream")

\* C13 as stated: a failed request to the direct stream reference makes
\* getStreamUrl go on to the progressive renditions and the download
\* reference, and it returns null only when the direct reference, every
\* progressive rendition and the download reference yield nothing.
C13_FailureFallsBack ==
    LET t == resolved.track
    IN  /\ (/\ t.stream_url # Null
             /\ resolved.net[t.stream_url] = "fail"
             /\ HasProgressive(t)) =>
                \E k \in DOMAIN resolved.requests :
                    resolved.requests[k] # t.stream_url
        /\ (resolved # NoCall /\ resolved.value = Null) =>
                /\ t.stream_url # Null => resolved.net[t.stream_url] # "url"
                /\ \A k \in DOMAIN t.transcodings :
                       t.transcodings[k].protocol = "progressive" =>
                           resolved.net[t.transcodings[k].url] # "url"
                /\ ~(t.downloadable /\ t.download_url # Null)

\* C14: whatever happens inside getStreamUrl, the iteration for a streamable
\* record leaves the run in ProcessingItems without an error, upserts the
\* assembled episode and appends it to the result; its media location is
\* null or the URL the last media request answered with, never an error.
C14_MediaFailureKeepsItem ==
    [][(i' = i + 1 /\ detailedTrack'.streamable) =>
          LET new == processedStreams'[Len(processedStreams')]
          IN  /\ pc' = "ProcessingItems"
              /\ err' = Null
              /\ upserts' = upserts + 1
              /\ Len(processedStreams') = Len(processedStreams) + 1
              /\ new.id = detailedTrack'.id
              /\ \/ new.streamUrl = Null
                 \/ /\ mediaRequests' # << >>
                    /\ new.streamUrl =
                           ResolvedUrl(mediaRequests'[Len(mediaRequests')])
              /\ \E k \in DOMAIN StoredNext :
                     /\ StoredNext[k].id = new.id
                     /\ StoredNext[k].streamUrl = new.streamUrl]_vars

\* C14's case: the request to the direct reference of a record with a
\* progressive rendition failed (no rendition was asked), and the episode is
\* stored and in the result with a null media location.
C14_Witness ==
    /\ pc = "ProcessingItems"
    /\ i = 1
    /\ detailedTrack.streamable
    /\ HasProgressive(detailedTrack)
    /\ mediaRequests = << detailedTrack.stream_url >>
    /\ Len(processedStreams) = 1
    /\ processedStreams[1].streamUrl = Null
    /\ Len(Stored) = 1
    /\ Stored[1].streamUrl = Null

\* The stage changes C15 allows within a run.
LinearTransitions ==
    { << "ResolvingCredential", "ResolvingOwner" >>,
      << "ResolvingOwner", "Enumerating" >>,
      << "Enumerating", "ProcessingItems" >>,
      << "ProcessingItems", "Done" >>,
      << "ResolvingCredential", "Failed" >>,
      << "ResolvingOwner", "Failed" >>,
      << "Enumerating", "Failed" >> }

\* C15 as stated: a run goes through ResolvingCredential, ResolvingOwner,
\* Enumerating and ProcessingItems in this order, no stage entered twice, and
\* ends in Done or Failed; Failed is entered from one of the first three
\* stages only, never from ProcessingItems.
C15_LinearStages ==
    [][pc' # pc =>
          \/ << pc, pc' >> \in LinearTransitions
          \/ /\ pc \in {"Idle", "Done", "Failed"}
             /\ pc' = "ResolvingCredential"]_vars

\* The store file an uninterrupted run leaves that finds the collection
\* `episodes` stored and processes `processed`, dates aside.
RECURSIVE RunOn(_, _)
RunOn(episodes, processed) ==
    IF processed = << >> THEN UndatedAll(episodes)
    ELSE LET before == RunOn(episodes, SubSeq(processed, 1, Len(processed) - 1))
             last == Undated(processed[Len(processed)])
         IN  UndatedAll(stringify(upsertEpisode(before, last, 0, 0)))

\* The run was started after a killed run and processed what that run had
\* processed, and then the rest.
Resumed ==
    /\ "start" \in DOMAIN prev
    /\ Len(prev.processed) <= Len(processedStreams)
    /\ SubSeq(UndatedAll(processedStreams), 1, Len(prev.processed)) = prev.processed

C17_OneRequestAtATime ==
    /\ Len(outstanding) <= 1
    /\ \A p, q \in DOMAIN events :
           (p < q /\ events[p][1] = "detail" /\ events[q][1] = "detail") =>
               events[p][2] < events[q][2]
    /\ \A p, q \in DOMAIN events :
           (events[p][1] = "upsert" /\ events[q][1] = "detail"
                /\ events[p][2] < events[q][2]) => p < q

\* C17's case: two items were processed, and the request to a rendition of
\* the second is outstanding.
C17_Witness ==
    /\ events = << << "detail", 1 >>, << "upsert", 1 >>, << "detail", 2 >> >>
    /\ outstanding = << "rendition" >>

\* C18: with two runs on one store file, an upsert rewrites the file from
\* the upserting run's own document: after it the file holds the identities
\* that run loaded or upserted and no other, so an episode the other run has
\* upserted in the meantime is gone from the store.
C18_RewriteFromOwnDocument ==
    [][\A r \in Runs :
           (procs[r].open /\ procs'[r].open /\ procs'[r].db # procs[r].db) =>
               /\ file' = written(procs'[r].db)
               /\ IdsOf(StoredNext) =
                      IdsOf(episodesOf(procs[r].db)) \cup procs'[r].completed]_vars

\* C18's case: both runs are going on, each has completed an upsert, and the
\* episode one of them upserted is not in the store.
C18_Witness ==
    /\ \A r \in Runs : procs[r].open /\ procs[r].completed # {}
    /\ \E r \in Runs :
           \E id \in procs[r].completed : id \notin IdsOf(Stored)

\* C19: every download request is for a stored episode that has a media
\* location and whose file is not in the downloads directory; no step changes
\* or removes a file that is there; and a download run that follows a run in
\* which every download succeeded issues no request.
C19_DownloadOnlyMissing ==
    [][/\ (requests' # requests /\ requests' # << >>) =>
              \E k \in DOMAIN Stored :
                  /\ "title" \in DOMAIN Stored[k]
                  /\ createEpisodeFilename(Stored[k]) = requests'[Len(requests')]
                  /\ Stored[k].streamUrl # Null
                  /\ requests'[Len(requests')] \notin DOMAIN files
       /\ \A name \in DOMAIN files :
              name \in DOMAIN files' /\ files'[name] = files[name]
       /\ dl'.prevOk => requests' = << >>]_vars

\* C19's case: of two stored episodes one has a media location; a first run
\* has downloaded it, and a second run is over without a request.
C19_Witness ==
    /\ dl.at = "done"
    /\ dl.prevOk
    /\ requests = << >>
    /\ Len(Stored) = 2
    /\ Stored[1].streamUrl = Null
    /\ Stored[2].streamUrl # Null
    /\ DOMAIN files = { createEpisodeFilename(Stored[2]) }

C22_PlaysMostRecent ==
    [][(lastEvent' \in {"ready", "play"} /\ bot'.player = "Playing")
       => \A f \in 1..localFiles' :
             created'[bot'.currentEpisode] >= created'[f]]_vars

\* The events of a kind among what fetchAllTracks did.
Did(kind) == SelectSeq(fetch.did, LAMBDA e : e[1] = kind)
PagesOf(pages) == Chain(pages, 1)

\* C23: fetchAllTracks on a chain of N pages returns after exactly N page
\* requests, for the pages of the chain in their order, with the
\* concatenation of the pages' collections in that order, a page without a
\* collection adding nothing; and it has passed its loop exactly when the
\* latest response carried no next_href.
C23_FetchAllPages ==
    /\ fetch.at = "returned"
        => /\ Len(Did("get")) = Len(PagesOf(fetch.pages))
           /\ \A k \in 1..Len(Did("get")) :
                  Did("get")[k][2] = PagesOf(fetch.pages)[k]
           /\ fetch.allTracks
                  = Concatenation(fetch.pages, PagesOf(fetch.pages))
    /\ (fetch.at \in {"loop", "timer"} /\ Did("get") # << >>)
        => LET last == Did("get")[Len(Did("get"))][2]
           IN  (fetch.nextUrl = 0) = (fetch.pages[last].next_href = 0)
    /\ fetch.at = "returned" => fetch.nextUrl = 0

\* C23's case: a chain of two pages, the first without a collection, the
\* second with one record, and fetchAllTracks has returned that record.
C23_Witness ==
    /\ fetch.at = "returned"
    /\ Len(PagesOf(fetch.pages)) = 2
    /\ fetch.pages[1].collection = undefined
    /\ Len(fetch.allTracks) = 1

\* C24: every page request but the first comes directly after a timer that
\* was set after the request before it and has fired, so that exactly one
\* delay lies between two successive requests and it is over when the next
\* request starts; nothing follows the last request: fetchAllTracks returns
\* from N requests with N - 1 timers set and fired.
C24_OneDelayBetweenPages ==
    /\ \A k \in 1..Len(fetch.did) :
          (fetch.did[k][1] = "get" /\ k > 1)
          => /\ k > 3
             /\ fetch.did[k - 1] = << "timeout", 1000 >>
             /\ fetch.did[k - 2] = << "setTimeout", 1000 >>
             /\ fetch.did[k - 3][1] = "get"
    /\ fetch.at = "returned"
        => /\ fetch.did[Len(fetch.did)][1] = "get"
           /\ Len(Did("setTimeout")) = Len(Did("get")) - 1
           /\ Len(Did("timeout")) = Len(Did("get")) - 1

\* C24's case: fetchAllTracks has returned from two page requests with one
\* timer between them.
C24_Witness ==
    /\ fetch.at = "returned"
    /\ Len(Did("get")) = 2
    /\ Len(Did("timeout")) = 1

\* What extractClientId did, by kind.
Scripts == SelectSeq(cred.did, LAMBDA e : e.op = "script")
Probes == SelectSeq(cred.did, LAMBDA e : e.op = "probe")
Yields(e) == e.ok /\ e.matches # {}

\* C25: the scripts requested are the first of the collected URLs, each once,
\* in the order they were first collected; every script before the latest
\* failed or matched no pattern, so nothing is requested after a match, and a
\* failed request does not end the scan; and when a script matches, the
\* result is what the first pattern of the list that matches in it captured.
C25_FirstMatchWins ==
    /\ Len(Scripts) <= Len(cred.scriptUrls)
    /\ \A k \in 1..Len(Scripts) :
          /\ Scripts[k].url = cred.scriptUrls[k]
          /\ k < Len(Scripts) => ~Yields(Scripts[k])
    /\ \A a, b \in 1..Len(cred.scriptUrls) :
          /\ cred.scriptUrls[a] = cred.scriptUrls[b] => a = b
          /\ \E j \in DOMAIN cred.found :
                /\ cred.found[j] = cred.scriptUrls[a]
                /\ \A h \in 1..(j - 1) : cred.found[h] # cred.found[j]
                /\ a < b => \E h \in DOMAIN cred.found :
                                /\ h > j
                                /\ cred.found[h] = cred.scriptUrls[b]
                                /\ \A g \in 1..(h - 1) :
                                      cred.found[g] # cred.found[h]
    /\ \A j \in DOMAIN cred.found :
          \E a \in DOMAIN cred.scriptUrls :
              cred.scriptUrls[a] = cred.found[j]
    /\ (Scripts # << >> /\ Yields(Scripts[Len(Scripts)]))
        => LET e == Scripts[Len(Scripts)]
           IN  /\ cred.at = "returned"
               /\ Probes = << >>
               /\ \E p \in e.matches :
                     /\ \A q \in e.matches : p <= q
                     /\ cred.clientId = Captured(e.url, p)
    /\ (cred.at = "scan" /\ cred.k > 1) => Len(Scripts) = cred.k - 1

\* C25's case: three URLs were collected, the first of them twice; the request
\* for the first script failed, and the second script, where two patterns
\* match, gave the credential.
C25_Witness ==
    /\ cred.at = "returned"
    /\ cred.found = << 2, 1, 2 >>
    /\ Len(Scripts) = 2
    /\ ~Scripts[1].ok
    /\ Scripts[2].matches = {3, 6}
    /\ cred.clientId = Captured(1, 3)

\* extractClientId has come to its end with the page fetched and no script
\* yielding a token.
NoScriptYielded ==
    /\ cred.at \in {"returned", "rejected"}
    /\ cred.did[1].ok
    /\ \A k \in 1..Len(Scripts) : ~Yields(Scripts[k])

\* C26: when no script yields a token the fallback values are probed in their
\* order with a resolve call, up to and including the first whose call
\* succeeds, which is the credential returned; when none succeeds all have
\* been probed.
C26_FallbackProbedInOrder ==
    NoScriptYielded
    => /\ Probes # << >>
       /\ \A k \in 1..Len(Probes) :
             /\ Probes[k].id = fallbackClientIds("script")[k]
             /\ k < Len(Probes) => ~Probes[k].ok
       /\ IF Probes[Len(Probes)].ok
          THEN /\ cred.at = "returned"
               /\ cred.clientId = Probes[Len(Probes)].id
          ELSE /\ cred.at = "rejected"
               /\ Len(Probes) = Len(fallbackClientIds("script"))

\* C27: extractClientId throws only when every collected script was requested
\* without a token match and every fallback value was probed and failed.
C27_FailsOnlyWhenExhausted ==
    cred.at = "rejected"
    => /\ Len(Scripts) = Len(cred.scriptUrls)
       /\ \A k \in 1..Len(Scripts) : ~Yields(Scripts[k])
       /\ Len(Probes) = Len(fallbackClientIds("script"))
       /\ \A k \in 1..Len(Probes) : ~Probes[k].ok

\* The direct stream reference of the latest call yielded no URL: the record
\* has none, or its response carried no URL. (A request to it that fails
\* ends getStreamUrl, which is C13's matter.)
DirectYieldsNothing ==
    \/ resolved.track.stream_url = Null
    \/ resolved.net[resolved.track.stream_url] = "nourl"

\* The requests of the latest call after the one to the direct reference.
RenditionRequests ==
    IF resolved.track.stream_url = Null THEN resolved.requests
    ELSE Tail(resolved.requests)

\* The progressive renditions of the latest call's record, in their order.
Progressive ==
    SelectSeq(resolved.track.transcodings,
              LAMBDA rendition : rendition.protocol = "progressive")

ValidLabeled ==
    { k \in DOMAIN link.description :
         /\ link.description[k].kind = "labeled"
         /\ candidate(link.description[k].title) # Null }

\* C30: when the description has a labelled reference that validates, the
\* result is a labelled reference that validates, also when a bare URL stands
\* before it; and a result that comes from a bare URL is given only when no
\* labelled reference validates.
C30_LabeledBeforeBare ==
    ValidLabeled # {}
    => \E k \in ValidLabeled :
          link.value = candidate(link.description[k].title)

\* The latest call ran the loop over urlPatterns on a text.
BarePhase ==
    /\ ~notText(link.description)
    /\ link.variant = "script" => labeledReference(link.description) = Null

\* The pieces of the latest description holding a match of some urlPattern
\* that validates.
ValidBare ==
    { k \in DOMAIN link.description :
         \E p \in DOMAIN urlPatterns :
            candidate(match(link.description[k].title, urlPatterns[p])) # Null }

\* C31: in the loop over urlPatterns, when some piece of the text holds a
\* match that validates, also one standing after a match of the same pattern
\* that was rejected, the result is not null.
C31_FirstValidMatch == (BarePhase /\ ValidBare # {}) => link.value # Null

\* C32: a result that is not null starts with a scheme, parses as a URL, and
\* has a host with a dot and more than 3 characters; and the result is null
\* for no description, a description that is not a string, a text without a
\* match, and a text whose only candidate is "http://a".
C32_ResultIsValidUrl ==
    /\ link.value # Null
         => /\ startsWith(link.value, "http://")
               \/ startsWith(link.value, "https://")
            /\ hostname(link.value) # Invalid
            /\ includes(hostname(link.value), ".")
            /\ Len(hostname(link.value)) > 3
    /\ \/ notText(link.description)
       \/ \A k \in DOMAIN link.description :
             \/ link.description[k].kind = "text"
             \/ link.description[k].title = "http://a"
       => link.value = Null

\* A text whose only candidate is "http://a", after a label, has been
\* handled by the copy that reads labels, and the result is null.
C32_Witness ==
    /\ link.variant = "script"
    /\ link.description = << LabeledToken("shownotes", "http://a") >>
    /\ link.value = Null

\* The chapter lines of the description the episode was assembled from.
ChapterLines ==
    SelectSeq(call.input, LAMBDA tok : tok.kind = "chapter")

C34_FilesAreComplete ==
    \A filename \in DOMAIN files : files[filename] = "complete"

\* C35: after a chapter selection has been handled, the player plays only
\* if the bot holds a voice connection.
C35_SeekPlaysOnlyConnected ==
    [][(lastEvent' = "seek" /\ bot'.player = "Playing")
          => holdsConnection(bot')]_vars

\* C36: under any interleaving of commands, selections and player events,
\* an interaction is given one first response at most, and reply is not
\* called on an interaction that was replied to or deferred.
C36_OneInitialResponse ==
    \A k \in DOMAIN sel.did :
        sel.did[k] \in {"reply", "deferUpdate"} => k = 1

\* The menu shown is the last one: it has no 'show more' option.
LastMenu ==
    \A k \in DOMAIN call.output.options :
        call.output.options[k].chapter # -1

\* C37: every chapter menu has at most 25 options, at most 24 of them
\* chapters, with a 'show more' option exactly when chapters remain behind
\* the ones shown; the menus from index 0 to the last one show the chapters
\* 0..N-1, each once; and the chapter sought after a selection is the
\* chapter the selected option shows.
C37_MenuPages ==
    call.fn = "showChapters"
    => LET menu == call.output.options
           totalChapters == call.input.totalChapters
       IN  /\ Len(menu) <= 25
           /\ Len(shownBy(menu)) <= 24
           /\ ~LastMenu <=> Len(call.output.shown) < totalChapters
           /\ \A k \in 1..(Len(menu) - 1) : menu[k].chapter # -1
           /\ LastMenu
                => call.output.shown = [k \in 1..totalChapters |-> k - 1]
           /\ call.output.selected # 0
                => call.output.sought = menu[call.output.selected].chapter

\* An episode of 50 chapters: 'show more' was followed twice, to the third
\* and last menu, and its second option was selected, which shows chapter
\* 49 and seeks to it.
C37_Witness ==
    /\ call.fn = "showChapters"
    /\ call.input = [totalChapters |-> 50, startIdx |-> 48]
    /\ LastMenu
    /\ call.output.selected = 2
    /\ call.output.sought = 49

\* C38: for a stored episode, findEpisodeData of the file name the download
\* step derives is that episode, and getEpisodeTitle of it is that
\* episode's title, whatever the title holds and with or without createdAt.
C38_FilenameFindsEpisode ==
    call.fn = "createEpisodeFilename"
    => /\ call.output.found = << call.input.episodes[call.input.k] >>
       /\ call.output.title = call.input.episodes[call.input.k].title

\* The second of two stored episodes, without createdAt and with a title
\* that ends in the other episode's id, was named and found again.
C38_Witness ==
    /\ call.fn = "createEpisodeFilename"
    /\ call.input.k = 2
    /\ call.input.episodes[1].id = 12
    /\ call.output.filename = "null_Top 10_12_212.mp3"
    /\ call.output.found = << call.input.episodes[2] >>

\* The fields of a text written with colons between them.
RECURSIVE Fields(_)
Fields(s) ==
    LET colon == { k \in 1..Len(s) : SubSeq(s, k, k) = ":" }
        first == CHOOSE k \in colon : \A j \in colon : k <= j
    IN  IF colon = {} THEN << s >>
        ELSE << SubSeq(s, 1, first - 1) >>
                \o Fields(IF first = Len(s) THEN ""
                          ELSE SubSeq(s, first + 1, Len(s)))

\* The seconds a list of fields of digits writes, as hours, minutes and
\* seconds or as minutes and seconds.
RECURSIVE SecondsOf(_)
SecondsOf(fields) ==
    IF Len(fields) = 0 THEN 0
    ELSE 60 * SecondsOf(SubSeq(fields, 1, Len(fields) - 1))
            + number(fields[Len(fields)])

\* C39: formatDuration gives "Unknown" for no duration and for 0; for a
\* duration of 1 millisecond or more it gives fields of digits that write
\* exactly the whole seconds of the duration: hours, minutes and seconds
\* from one hour on, minutes and seconds below; the seconds, and the minutes
\* behind hours, are two digits wide and below 60.
C39_DurationEncodesSeconds ==
    call.fn = "formatDuration"
    => IF call.input \in {<< >>, << 0 >>}
       THEN call.output = "Unknown"
       ELSE LET fields == Fields(call.output)
                total == call.input[1] \div 1000
            IN  /\ Len(fields) = IF total >= 3600 THEN 3 ELSE 2
                /\ \A k \in DOMAIN fields :
                      /\ Len(fields[k]) >= 1
                      /\ \A j \in 1..Len(fields[k]) :
                            SubSeq(fields[k], j, j) \in Digit
                /\ \A k \in 2..Len(fields) :
                      Len(fields[k]) = 2 /\ number(fields[k]) < 60
                /\ SecondsOf(fields) = total

\* A duration of one hour, one minute, one second and 999 milliseconds was
\* formatted, with the minutes and the seconds padded.
C39_Witness ==
    /\ call.fn = "formatDuration"
    /\ call.input = << 3661999 >>
    /\ call.output = "1:01:01"

====
